---- MODULE Spec2Model ----
(***************************************************************************)
(* EmissionWiz forecasting core: feature building (phase 3), the recursive *)
(* ridge forecaster and the direct mid-horizon forecaster with its merge   *)
(* (phase 4), the baseline blender and the metrics evaluator (phase 4),    *)
(* and the forecasts appended to the country files (phase 5).              *)
(*                                                                         *)
(* Numbers are fixed-point integers (anomalies and temperatures in         *)
(* hundredths of a degree, weights as numerators over a stated             *)
(* denominator).  A missing value (pandas NaN) is the value NaN.           *)
(***************************************************************************)
EXTENDS Integers, Sequences, FiniteSets, TLC

VARIABLES
    phase,      \* which script / loop position the batch job is at
    store,      \* anomalies table: country -> (TimeKey -> record)
    cfg,        \* command-line options and setup.json
    cuts,       \* cutoffs table: sequence of <<year, month>>
    feat,       \* features table: country -> rows sorted by TimeKey
    ci,         \* index of the current cutoff in cuts
    co,         \* index of the current country in CountryOrder
    h,          \* next horizon of the current task
    hist,       \* history buffer of the current recursive task
    use_cols,   \* usable feature columns of the current task
    model,      \* fitted model of the current task, or NoModel
    xs,         \* feature vectors the current recursive task predicted from
    rows,       \* forecast records of the recursive script, in append order
    mid,        \* forecast records of the direct script, in append order
    merged,     \* output table of the direct script's merge
    log,        \* the tasks skipped and the horizon loops halted so far
    args,       \* the blend script's options
    tabs,       \* the blend script's input tables m, c and l
    df,         \* the blend script's joined frame
    bi,         \* index of the next name in buckets_to_opt
    best_w,     \* the weight chosen per bucket so far
    out,        \* the blended forecasts written
    allow_overwrite,  \* the apply script's --allow_overwrite
    forecasts,  \* the apply script's forecasts table F
    lc,         \* the latest cutoff of the forecasts table
    country_files,    \* the country files read: name -> rows
    pi,         \* index of the next country file
    out_files,  \* the country files written: name -> rows
    mtabs,      \* the metrics script's input tables m, b1 and b2
    by_country, \* the model's statistics per (country, bucket)
    global_m,   \* the model's statistics per bucket
    b_by_country,     \* the baselines' statistics per (country, bucket)
    b_global,   \* the baselines' statistics per bucket
    cmp,        \* the model against the best baseline per (country, bucket)
    wins        \* the share of countries the model wins, per bucket

pipeVars == <<store, cfg, cuts, feat, ci, co, h, hist, use_cols, model,
              xs, rows, mid, merged, log>>
blendVars == <<args, tabs, df, bi, best_w, out>>
applyVars == <<allow_overwrite, forecasts, lc, country_files, pi, out_files>>
metVars == <<mtabs, by_country, global_m, b_by_country, b_global, cmp, wins>>
vars == <<phase, pipeVars, blendVars, applyVars, metVars>>

----------------------------------------------------------------------------
(* Bounds of the model *)

NumMonths == 20        \* months of the fully observed series
FirstCutoff == 15      \* month offset of the first forecast origin
NumCutoffs == 2        \* forecast origins, at consecutive months
MaxH == 3              \* horizons_max of setup.json
NumPatterns == 1       \* anomaly series the store is drawn from

(* Program constants *)

Lag12 == 12
Lag24 == 24
Roll3 == 3
Roll12 == 12
HistSeed == 60
HistCap == 120

NaN == -999999

\* horizons a long run takes beyond the ones that fill the history buffer
ExtraH == 2
LongH == HistCap - HistSeed + ExtraH
IsNaN(v) == v = NaN
NotNa(v) == v # NaN

----------------------------------------------------------------------------
(* TimeKey codec *)

ym_to_key(y, m) == y * 12 + (m - 1)
\* (mutant) the month counted from 0
key_to_ym_FromZero(k) == <<k \div 12, k % 12>>

key_to_ym(k) == <<k \div 12, (k % 12) + 1>>

\* offset 0 of the model's calendar
BaseKey == ym_to_key(2018, 9)

----------------------------------------------------------------------------
(* Generic helpers over sets and sequences *)

MinOf(S) == CHOOSE x \in S : \A y \in S : x <= y
MaxOf(S) == CHOOSE x \in S : \A y \in S : x >= y

RECURSIVE SortedSeq(_)
SortedSeq(S) == IF S = {} THEN <<>>
                ELSE LET m == MinOf(S) IN <<m>> \o SortedSeq(S \ {m})

RECURSIVE SumSeq(_)
SumSeq(s) == IF s = <<>> THEN 0 ELSE Head(s) + SumSeq(Tail(s))

Range(s) == {s[i] : i \in DOMAIN s}

Last(s) == s[Len(s)]

\* s[-n] of Python for n >= 1 and len(s) >= n
FromEnd(s, n) == s[Len(s) - n + 1]

\* s[-n:] of Python
TailN(s, n) == IF Len(s) <= n THEN s ELSE SubSeq(s, Len(s) - n + 1, Len(s))

RECURSIVE SelectSeqBy(_, _)
SelectSeqBy(s, keep) == IF s = <<>> THEN <<>>
                        ELSE IF Head(s) \in keep
                             THEN <<Head(s)>> \o SelectSeqBy(Tail(s), keep)
                             ELSE SelectSeqBy(Tail(s), keep)

ISqrt(n) == CHOOSE r \in 0..n : r * r <= n /\ (r + 1) * (r + 1) > n

\* np.mean / pandas mean of values without NaN, in fixed point
Mean(s) == SumSeq(s) \div Len(s)

\* np.std(ddof=0) of values without NaN, in fixed point
Std0(s) == LET n == Len(s)
               sq == [i \in 1..n |-> s[i] * s[i]]
           IN ISqrt(n * SumSeq(sq) - SumSeq(s) * SumSeq(s)) \div n

----------------------------------------------------------------------------
(* The anomalies table (Series Store) the run reads *)

Countries == {"A", "B"}
\* pandas groupby iterates the groups in sorted key order
CountryOrder == <<"A", "B">>

\* Sets of month offsets a country's series may hold.
Layout(i) ==
    CASE i = 1 -> 0..(NumMonths - 1)
      [] i = 2 -> (0..(NumMonths - 1)) \ {FirstCutoff}
      [] i = 3 -> 0..(NumMonths - 3)
      [] i = 4 -> (0..(NumMonths - 1)) \ {NumMonths - 3}
      [] i = 5 -> ((0 - 75)..(0 - 62)) \cup ((FirstCutoff + 1)..(NumMonths - 1))
      [] i = 6 -> 0..(FirstCutoff + LongH)
      [] i = 7 -> (0..(FirstCutoff + LongH)) \ {FirstCutoff - 1}
      [] i = 8 -> 0..(FirstCutoff + LongH - 1)
      [] i = 9 -> (0..(NumMonths - 1)) \ {NumMonths - 2}
      [] i = 10 -> (0..(NumMonths - 1)) \ {FirstCutoff + 1}

Layouts == 1..5

\* the layouts 6 to 8 are those of a series observed for more than
\* HistCap - HistSeed months after the first forecast origin

AnomAt(p, c, off) ==
    LET shift == IF c = "A" THEN 0 ELSE 3
    IN ((((off + 80) * (p + 1) + shift) % 7) - 3) * 10

ClimAt(k) == 1000 + 50 * key_to_ym(k)[2]

StoreOf(p, lay) ==
    [c \in Countries |->
        [k \in {BaseKey + off : off \in Layout(lay[c])} |->
            LET a == AnomAt(p, c, k - BaseKey)
            IN [clim_temp_c |-> ClimAt(k), anomaly_c |-> a,
                temp_c |-> ClimAt(k) + a]]]

Has(L, c, k) == k \in DOMAIN L[c]

----------------------------------------------------------------------------
(* phase3_build_features.py *)

\* sin and cos of 2*pi*m/12 in hundredths, m = 0..12
Sin100 == <<50, 87, 100, 87, 50, 0, 0 - 50, 0 - 87, 0 - 100, 0 - 87, 0 - 50, 0>>
Cos100 == <<87, 50, 0, 0 - 50, 0 - 87, 0 - 100, 0 - 87, 0 - 50, 0, 50, 87, 100>>

add_calendar(month) == [mon_sin |-> Sin100[month], mon_cos |-> Cos100[month]]

\* a column held as a sequence
Col(f) == SubSeq(f, 1, Len(f))

\* Series.shift(n) on a column in row order: row i takes the value of row i - n
Shift(col, n) ==
    LET len == Len(col)
    IN Col([i \in 1..len |->
               IF i - n >= 1 /\ i - n <= len THEN col[i - n] ELSE NaN])

\* the window rolling(w, min_periods = w) sees at row i, or <<>> when it is
\* short or holds a missing value
Window(col, w, i) ==
    IF i - w + 1 < 1 THEN <<>>
    ELSE LET win == SubSeq(col, i - w + 1, i)
         IN IF \E j \in 1..w : IsNaN(win[j]) THEN <<>> ELSE win

RollingMean(col, w) ==
    Col([i \in 1..Len(col) |->
            LET win == Window(col, w, i)
            IN IF win = <<>> THEN NaN ELSE Mean(win)])

RollingStd(col, w) ==
    Col([i \in 1..Len(col) |->
            LET win == Window(col, w, i)
            IN IF win = <<>> THEN NaN ELSE Std0(win)])

\* the TimeKeys whose anomaly a rolling window at row i reads
WindowKeys(keycol, w, i) ==
    IF i - w + 1 < 1 THEN {}
    ELSE {keycol[j] : j \in (i - w + 1)..i} \ {NaN}

RollingKeys(keycol, w) ==
    Col([i \in 1..Len(keycol) |-> WindowKeys(keycol, w, i)])

\* g.sort_values(["year","month"]): the country's rows in TimeKey order
SortedRows(L, c) == SortedSeq(DOMAIN L[c])

\* the anomaly_c column of the sorted rows
AnomalyCol(L, c, ks) == Col([i \in 1..Len(ks) |-> L[c][ks[i]].anomaly_c])

\* (mutant) the rolling statistics taken without the shift by one row
add_persistence_NoShift(ks, a) ==
    LET s1 == Shift(a, 1)
        k1 == Shift(ks, 1)
    IN [anom_lag1 |-> s1,
        anom_lag12 |-> Shift(a, Lag12),
        anom_lag24 |-> Shift(a, Lag24),
        roll_mean_3 |-> RollingMean(a, Roll3),
        roll_std_3 |-> RollingStd(a, Roll3),
        roll_mean_12 |-> RollingMean(a, Roll12),
        src |-> [anom_lag1 |-> RollingKeys(k1, 1),
                 anom_lag12 |-> RollingKeys(Shift(ks, Lag12), 1),
                 anom_lag24 |-> RollingKeys(Shift(ks, Lag24), 1),
                 roll_mean_3 |-> RollingKeys(ks, Roll3),
                 roll_std_3 |-> RollingKeys(ks, Roll3),
                 roll_mean_12 |-> RollingKeys(ks, Roll12)]]

\* the columns add_persistence adds to the sorted rows ks with anomaly
\* column a, and (src) the TimeKeys each of them was computed from
add_persistence(ks, a) ==
    LET s1 == Shift(a, 1)
        k1 == Shift(ks, 1)
    IN [anom_lag1 |-> s1,
        anom_lag12 |-> Shift(a, Lag12),
        anom_lag24 |-> Shift(a, Lag24),
        roll_mean_3 |-> RollingMean(s1, Roll3),
        roll_std_3 |-> RollingStd(s1, Roll3),
        roll_mean_12 |-> RollingMean(s1, Roll12),
        src |-> [anom_lag1 |-> RollingKeys(k1, 1),
                 anom_lag12 |-> RollingKeys(Shift(ks, Lag12), 1),
                 anom_lag24 |-> RollingKeys(Shift(ks, Lag24), 1),
                 roll_mean_3 |-> RollingKeys(k1, Roll3),
                 roll_std_3 |-> RollingKeys(k1, Roll3),
                 roll_mean_12 |-> RollingKeys(k1, Roll12)]]

\* the column add_target adds, and the TimeKey it was taken from
add_target(ks, a) ==
    [target_anom_t_plus_1 |-> Shift(a, 0 - 1),
     target_src |-> RollingKeys(Shift(ks, 0 - 1), 1)]

\* out = d[cols].dropna(subset=core, how="any")
CoreComplete(r) ==
    /\ NotNa(r.anom_lag1) /\ NotNa(r.anom_lag12)
    /\ NotNa(r.roll_mean_3) /\ NotNa(r.roll_std_3)
    /\ NotNa(r.target_anom_t_plus_1)

build_features(L, c) ==
    LET ks == SortedRows(L, c)
        a == AnomalyCol(L, c, ks)
        per == add_persistence(ks, a)
        tgt == add_target(ks, a)
        d == [i \in 1..Len(ks) |->
                [country |-> c, k |-> ks[i],
                 year |-> key_to_ym(ks[i])[1], month |-> key_to_ym(ks[i])[2],
                 mon_sin |-> add_calendar(key_to_ym(ks[i])[2]).mon_sin,
                 mon_cos |-> add_calendar(key_to_ym(ks[i])[2]).mon_cos,
                 temp_c |-> L[c][ks[i]].temp_c,
                 clim_temp_c |-> L[c][ks[i]].clim_temp_c,
                 anomaly_c |-> a[i],
                 anom_lag1 |-> per.anom_lag1[i],
                 anom_lag12 |-> per.anom_lag12[i],
                 anom_lag24 |-> per.anom_lag24[i],
                 roll_mean_3 |-> per.roll_mean_3[i],
                 roll_std_3 |-> per.roll_std_3[i],
                 roll_mean_12 |-> per.roll_mean_12[i],
                 target_anom_t_plus_1 |-> tgt.target_anom_t_plus_1[i],
                 src |-> [f \in DOMAIN per.src |-> per.src[f][i]],
                 target_src |-> tgt.target_src[i]]]
    IN SelectSeq(d, CoreComplete)

----------------------------------------------------------------------------
(* phase4_train_ridge.py: the recursive forecaster *)

NoModel == [fitted |-> FALSE]

BaseCols == <<"mon_sin", "mon_cos", "anom_lag1", "anom_lag12",
              "roll_mean_3", "roll_std_3">>
OptCols == <<"anom_lag24", "roll_mean_12">>

\* the columns of the features file (--drop_optional leaves the optional out)
FeatColumns(c) == IF c.drop_optional THEN Range(BaseCols)
                  ELSE Range(BaseCols) \cup Range(OptCols)

select_features(columns) ==
    BaseCols \o SelectSeqBy(OptCols, columns)

parse_ym(s) == ym_to_key(s[1], s[2])

\* dfc[dfc["k"] <= k_cut]
RecTrainRows(F, c, k_cut) ==
    LET P(r) == r.k <= k_cut IN SelectSeq(F[c], P)

\* [c for c in base_feature_list if c in train.columns
\*    and not train[c].isna().any()]
UsableCols(base, columns, train) ==
    LET ok == {c \in columns : \A i \in 1..Len(train) : NotNa(train[i][c])}
    IN SelectSeqBy(base, ok)

\* train.dropna(subset=["target_anom_t_plus_1"])
DropNaTarget(train) ==
    LET P(r) == NotNa(r.target_anom_t_plus_1) IN SelectSeq(train, P)

\* X = train[use_cols].values
Matrix(train, cols) ==
    [i \in 1..Len(train) |-> [c \in Range(cols) |-> train[i][c]]]

HasNaN(X, y) ==
    \/ \E i \in 1..Len(X) : \E c \in DOMAIN X[i] : IsNaN(X[i][c])
    \/ \E i \in 1..Len(y) : IsNaN(y[i])

\* StandardScaler().fit(X) and Ridge(alpha).fit(scaler.transform(X), y): on
\* centred columns the intercept is the mean of y; the solver's slope is
\* stood for by a fixed half response to the first lag.
RidgeFit(X, y, alpha) ==
    [fitted |-> TRUE, alpha |-> alpha, n |-> Len(X),
     intercept |-> Mean(y),
     center |-> IF "anom_lag1" \in DOMAIN X[1]
                THEN Mean([i \in 1..Len(X) |-> X[i]["anom_lag1"]]) ELSE 0]

\* model.predict(model._scaler.transform(x))
RidgePredict(m, x) ==
    IF "anom_lag1" \in DOMAIN x
    THEN m.intercept + ((x["anom_lag1"] - m.center) \div 2)
    ELSE m.intercept

\* fit_ridge_timeaware of phase4_train_ridge.py on a sample below 60 rows
fit_ridge_timeaware(X, y, alphas) == RidgeFit(X, y, 10)

\* Series.fillna(method="ffill"): the last value present at or before i
ffill(s) ==
    LET f[i \in 0..Len(s)] ==
            IF i = 0 THEN NaN ELSE IF NotNa(s[i]) THEN s[i] ELSE f[i - 1]
    IN [i \in 1..Len(s) |-> f[i]]

\* Series.fillna(method="bfill"): the first value present at or after i
bfill(s) ==
    LET f[i \in 1..(Len(s) + 1)] ==
            IF i = Len(s) + 1 THEN NaN
            ELSE IF NotNa(s[i]) THEN s[i] ELSE f[i + 1]
    IN [i \in 1..Len(s) |-> f[i]]

\* hist: the anomalies at k_cut-59 .. k_cut, gaps filled forward then backward
SeedHist(L, c, k_cut) ==
    LET raw == [i \in 1..HistSeed |->
                   LET kk == k_cut - HistSeed + i
                   IN IF Has(L, c, kk) THEN L[c][kk].anomaly_c ELSE NaN]
    IN bfill(ffill(raw))

NotNaSeq(s) == SelectSeq(s, NotNa)

\* the feature vector of one horizon step, from the history buffer
StepFeatures(hs, m_tgt, cols) ==
    LET last3 == NotNaSeq(TailN(hs, 3))
        last12 == NotNaSeq(TailN(hs, 12))
        x == [mon_sin |-> Sin100[m_tgt], mon_cos |-> Cos100[m_tgt],
              anom_lag1 |-> IF Len(hs) >= 1 THEN FromEnd(hs, 1) ELSE NaN,
              anom_lag12 |-> IF Len(hs) >= 12 THEN FromEnd(hs, 12) ELSE NaN,
              roll_mean_3 |-> IF Len(last3) = 3 THEN Mean(last3) ELSE NaN,
              roll_std_3 |-> IF Len(last3) = 3 THEN Std0(last3) ELSE NaN,
              anom_lag24 |-> IF Len(hs) >= 24 THEN FromEnd(hs, 24) ELSE NaN,
              roll_mean_12 |-> IF Len(last12) = 12 THEN Mean(last12) ELSE NaN]
    IN [c \in Range(cols) |-> x[c]]

RowHasNaN(x) == \E c \in DOMAIN x : IsNaN(x[c])

\* (mutant) the prediction left as the model gave it
Clip_None(p, clip) == p

\* np.clip(pred_anom, -clip, clip) when clip > 0
Clip(p, clip) ==
    IF clip > 0
    THEN (IF p > clip THEN clip ELSE IF p < 0 - clip THEN 0 - clip ELSE p)
    ELSE p

\* (mutant) a step in place of the ramp: the maximum from start + 1 on
blend_weight_Step(hh, start, end, wmax) ==
    IF end <= start \/ wmax <= 0 THEN 0
    ELSE IF hh <= start THEN 0
    ELSE wmax * 100

\* the ramp weight in thousandths; wmax is given in tenths
blend_weight(hh, start, end, wmax) ==
    IF end <= start \/ wmax <= 0 THEN 0
    ELSE IF hh <= start THEN 0
    ELSE IF hh >= end THEN wmax * 100
    ELSE (wmax * 100 * (hh - start)) \div (end - start)

\* damp = max(0.0, min(1.0, cfg.damping)), in tenths
Damp(d) == IF d < 0 THEN 0 ELSE IF d > 10 THEN 10 ELSE d

\* (mutant) the prediction fed back without damping
Damped_None(d, p) == p

\* damp * pred_anom
Damped(d, p) == (Damp(d) * p) \div 10

\* (mutant) the buffer never cut
PushHist_NoCap(hs, d, p) == Append(hs, Damped(d, p))

\* hist.append(damp * pred_anom); hist = hist[-120:]
PushHist(hs, d, p) == TailN(Append(hs, Damped(d, p)), HistCap)

----------------------------------------------------------------------------
(* The run: configuration and inputs *)

Cutoffs == [i \in 1..NumCutoffs |-> key_to_ym(BaseKey + FirstCutoff + i - 1)]

\* the rows of the cutoffs file come in the order the file has them
Reverse(q) == [i \in 1..Len(q) |-> q[Len(q) + 1 - i]]
CutOrders == {Cutoffs, Reverse(Cutoffs)}

Configs ==
    [horizons_max : {MaxH},
     min_train_rows : {2, 3},
     drop_optional : BOOLEAN,
     damping : {9, 12},
     clip_anom : {0, 15},
     blend : {<<0, 0, 0>>, <<1, 3, 5>>},
     h_start : {2},
     h_end : {2, 5},
     alphas : {<<10>>}]

\* one configuration with other ramp options (end below start, a maximum
\* of 0, a maximum above 1) and with the direct script's default --alphas
EdgeConfigs ==
    LET base == [horizons_max |-> MaxH, min_train_rows |-> 2,
                 drop_optional |-> FALSE, damping |-> 9, clip_anom |-> 0,
                 blend |-> <<0, 0, 0>>, h_start |-> 2, h_end |-> 5,
                 alphas |-> <<10>>]
    IN {[base EXCEPT !.blend = b] : b \in {<<3, 1, 5>>, <<1, 3, 0>>,
                                           <<0, 2, 12>>}}
       \cup {[base EXCEPT !.alphas = <<300, 1000, 3000>>]}

\* the runs of the model: every configuration with the cutoffs ascending,
\* and the configurations without clipping and ramp with them descending
Runs ==
    {r \in [cfg : Configs, cuts : CutOrders] :
        \/ r.cuts = Cutoffs
        \/ r.cfg.clip_anom = 0 /\ r.cfg.blend = <<0, 0, 0>>}
    \cup [cfg : EdgeConfigs, cuts : {Cutoffs}]

\* the inputs of the model: every run on every pair of series, and one run
\* on a series that lacks the month before the last one and a series that
\* lacks the month of the second cutoff
Inputs ==
    [lay : [Countries -> Layouts], run : Runs]
    \cup [lay : {[c \in Countries |-> IF c = "A" THEN 9 ELSE 10]},
          run : {r \in Runs : r.cfg \in EdgeConfigs
                                /\ r.cfg.blend = <<0, 0, 0>>}]

Init ==
    /\ phase = "features"
    /\ \E p \in 1..NumPatterns, in \in Inputs :
          /\ store = StoreOf(p, in.lay)
          /\ cfg = in.run.cfg /\ cuts = in.run.cuts
    /\ feat = [c \in Countries |-> <<>>]
    /\ ci = 1 /\ co = 1 /\ h = 0
    /\ hist = <<>> /\ use_cols = <<>> /\ model = NoModel /\ xs = <<>>
    /\ rows = <<>> /\ mid = <<>> /\ merged = <<>> /\ log = {}
    /\ args = <<>> /\ tabs = <<>> /\ df = <<>> /\ bi = 0
    /\ best_w = <<>> /\ out = <<>>
    /\ allow_overwrite = FALSE /\ forecasts = <<>> /\ lc = <<>>
    /\ country_files = <<>> /\ pi = 0 /\ out_files = <<>>
    /\ mtabs = <<>> /\ by_country = <<>> /\ global_m = <<>>
    /\ b_by_country = <<>> /\ b_global = <<>> /\ cmp = <<>> /\ wins = <<>>

\* phase3_build_features.py main: the features file of every country
BuildFeatures ==
    /\ phase = "features"
    /\ feat' = [c \in Countries |-> build_features(store, c)]
    /\ phase' = "rec_task"
    /\ UNCHANGED <<store, cfg, cuts, ci, co, h, hist, use_cols, model, xs,
                   rows, mid, merged, log>>
    /\ UNCHANGED blendVars
    /\ UNCHANGED applyVars
    /\ UNCHANGED metVars

K_cut == parse_ym(cuts[ci])
Country == CountryOrder[co]

\* a skipped task (horizon 0: a recursive task) or a halted horizon loop
Event(kind, hh) ==
    [kind |-> kind, country |-> Country, k_cut |-> K_cut, horizon |-> hh]

\* (mutant) the loop body without the two minimum-size checks
RecTask_NoFloor(F, columns, c, k_cut, floor) ==
    LET train0 == RecTrainRows(F, c, k_cut)
        cols == UsableCols(select_features(columns), columns, train0)
        train == DropNaTarget(train0)
        X == Matrix(train, cols)
        y == [i \in 1..Len(train) |-> train[i].target_anom_t_plus_1]
    IN [train |-> train, cols |-> cols, X |-> X, y |-> y,
        go |-> /\ Len(train) >= 1
               /\ cols # <<>>
               /\ ~HasNaN(X, y)]

\* what the body of the (cutoff, country) loop decides before the horizon
\* loop: the usable columns, the training rows, and whether it goes on
RecTask(F, columns, c, k_cut, floor) ==
    LET train0 == RecTrainRows(F, c, k_cut)
        cols == UsableCols(select_features(columns), columns, train0)
        train == DropNaTarget(train0)
        X == Matrix(train, cols)
        y == [i \in 1..Len(train) |-> train[i].target_anom_t_plus_1]
    IN [train |-> train, cols |-> cols, X |-> X, y |-> y,
        go |-> /\ Len(train0) >= floor
               /\ cols # <<>>
               /\ Len(train) >= floor
               /\ ~HasNaN(X, y)]

\* the next (cutoff, country) of the two nested loops
RecAdvance ==
    IF co < Len(CountryOrder)
    THEN /\ co' = co + 1 /\ ci' = ci /\ phase' = "rec_task"
    ELSE /\ co' = 1 /\ ci' = ci + 1
         /\ phase' = IF ci + 1 > Len(cuts) THEN "rec_write" ELSE "rec_task"

\* the union of the TimeKeys the given columns of the rows were computed from
SrcKeys(train, cols) ==
    UNION {train[i].src[c] : i \in 1..Len(train),
                              c \in Range(cols) \cap DOMAIN train[1].src}

RecSkip ==
    /\ phase = "rec_task"
    /\ ~RecTask(feat, FeatColumns(cfg), Country, K_cut, cfg.min_train_rows).go
    /\ RecAdvance
    /\ UNCHANGED <<store, cfg, cuts, feat, h, hist, use_cols, model, xs,
                   rows, mid, merged>>
    /\ UNCHANGED blendVars
    /\ UNCHANGED applyVars
    /\ UNCHANGED metVars
    /\ log' = log \cup {Event("skip", 0)}

\* (mutant) the history buffer of the task before is kept when there is one
RecFit_KeepHist ==
    /\ phase = "rec_task"
    /\ LET t == RecTask(feat, FeatColumns(cfg), Country, K_cut,
                        cfg.min_train_rows)
       IN /\ t.go
          /\ use_cols' = t.cols
          /\ model' = [fit |-> fit_ridge_timeaware(t.X, t.y, cfg.alphas),
                       fitted |-> TRUE, mode |-> "ridge",
                       country |-> Country, k_cut |-> K_cut, horizon |-> 0,
                       keys |-> {t.train[i].k : i \in 1..Len(t.train)},
                       train_y |-> {<<t.train[i].k, t.y[i]>> :
                                       i \in 1..Len(t.train)},
                       x_src |-> SrcKeys(t.train, t.cols),
                       y_src |-> UNION {t.train[i].target_src :
                                           i \in 1..Len(t.train)}]
    /\ hist' = IF hist # <<>> THEN hist ELSE SeedHist(store, Country, K_cut)
    /\ h' = 1 /\ xs' = <<>>
    /\ phase' = "rec_horizon"
    /\ UNCHANGED <<store, cfg, cuts, feat, ci, co, rows, mid, merged, log>>
    /\ UNCHANGED blendVars
    /\ UNCHANGED applyVars
    /\ UNCHANGED metVars

RecFit ==
    /\ phase = "rec_task"
    /\ LET t == RecTask(feat, FeatColumns(cfg), Country, K_cut,
                        cfg.min_train_rows)
       IN /\ t.go
          /\ use_cols' = t.cols
          /\ model' = [fit |-> fit_ridge_timeaware(t.X, t.y, cfg.alphas),
                       fitted |-> TRUE, mode |-> "ridge",
                       country |-> Country, k_cut |-> K_cut, horizon |-> 0,
                       keys |-> {t.train[i].k : i \in 1..Len(t.train)},
                       train_y |-> {<<t.train[i].k, t.y[i]>> :
                                       i \in 1..Len(t.train)},
                       x_src |-> SrcKeys(t.train, t.cols),
                       y_src |-> UNION {t.train[i].target_src :
                                           i \in 1..Len(t.train)}]
    /\ hist' = SeedHist(store, Country, K_cut)
    /\ h' = 1 /\ xs' = <<>>
    /\ phase' = "rec_horizon"
    /\ UNCHANGED <<store, cfg, cuts, feat, ci, co, rows, mid, merged, log>>
    /\ UNCHANGED blendVars
    /\ UNCHANGED applyVars
    /\ UNCHANGED metVars

StepX == StepFeatures(hist, key_to_ym(K_cut + h)[2], use_cols)

RecStep ==
    /\ phase = "rec_horizon" /\ h <= cfg.horizons_max
    /\ Has(store, Country, K_cut + h)
    /\ ~RowHasNaN(StepX)
    /\ LET k_tgt == K_cut + h
           clim == store[Country][k_tgt].clim_temp_c
           truth_c == store[Country][k_tgt].temp_c
           pred_anom == Clip(RidgePredict(model.fit, StepX), cfg.clip_anom)
           w == blend_weight(h, cfg.blend[1], cfg.blend[2], cfg.blend[3])
           pred_c == clim + (((1000 - w) * pred_anom) \div 1000)
       IN /\ rows' = Append(rows,
                [country |-> Country, year |-> key_to_ym(k_tgt)[1],
                 month |-> key_to_ym(k_tgt)[2], cutoff_ym |-> cuts[ci],
                 horizon |-> h, pred_anom |-> pred_anom, pred_c |-> pred_c,
                 truth_c |-> truth_c, model |-> "ridge"])
          /\ hist' = PushHist(hist, cfg.damping, pred_anom)
    /\ xs' = Append(xs, StepX)
    /\ h' = h + 1
    /\ UNCHANGED <<phase, store, cfg, cuts, feat, ci, co, use_cols, model,
                   mid, merged, log>>
    /\ UNCHANGED blendVars
    /\ UNCHANGED applyVars
    /\ UNCHANGED metVars

\* (mutant) `continue` in place of `break` on a missing target month
RecHaltMiss_Continue ==
    /\ phase = "rec_horizon" /\ h <= cfg.horizons_max
    /\ ~Has(store, Country, K_cut + h)
    /\ h' = h + 1
    /\ UNCHANGED <<phase, store, cfg, cuts, feat, ci, co, hist, use_cols,
                   model, xs, rows, mid, merged, log>>
    /\ UNCHANGED blendVars
    /\ UNCHANGED applyVars
    /\ UNCHANGED metVars

\* (mutant) a record without truth for a month the store does not hold
RecHaltMiss_Placeholder ==
    /\ phase = "rec_horizon" /\ h <= cfg.horizons_max
    /\ ~Has(store, Country, K_cut + h)
    /\ rows' = Append(rows,
          [country |-> Country, year |-> key_to_ym(K_cut + h)[1],
           month |-> key_to_ym(K_cut + h)[2], cutoff_ym |-> cuts[ci],
           horizon |-> h, pred_anom |-> NaN, pred_c |-> NaN,
           truth_c |-> NaN, model |-> "ridge"])
    /\ RecAdvance
    /\ UNCHANGED <<store, cfg, cuts, feat, h, hist, use_cols, model, xs,
                   mid, merged, log>>
    /\ UNCHANGED blendVars
    /\ UNCHANGED applyVars
    /\ UNCHANGED metVars

\* except KeyError: break
RecHaltMiss ==
    /\ phase = "rec_horizon" /\ h <= cfg.horizons_max
    /\ ~Has(store, Country, K_cut + h)
    /\ RecAdvance
    /\ UNCHANGED <<store, cfg, cuts, feat, h, hist, use_cols, model, xs,
                   rows, mid, merged>>
    /\ UNCHANGED blendVars
    /\ UNCHANGED applyVars
    /\ UNCHANGED metVars
    /\ log' = log \cup {Event("miss", h)}

\* if x_df.isna().any(axis=None): break
RecHaltNaN ==
    /\ phase = "rec_horizon" /\ h <= cfg.horizons_max
    /\ Has(store, Country, K_cut + h)
    /\ RowHasNaN(StepX)
    /\ RecAdvance
    /\ UNCHANGED <<store, cfg, cuts, feat, h, hist, use_cols, model, xs,
                   rows, mid, merged>>
    /\ UNCHANGED blendVars
    /\ UNCHANGED applyVars
    /\ UNCHANGED metVars
    /\ log' = log \cup {Event("nan", h)}

\* range(1, HMAX+1) is exhausted
RecEnd ==
    /\ phase = "rec_horizon" /\ h > cfg.horizons_max
    /\ RecAdvance
    /\ UNCHANGED <<store, cfg, cuts, feat, h, hist, use_cols, model, xs,
                   rows, mid, merged, log>>
    /\ UNCHANGED blendVars
    /\ UNCHANGED applyVars
    /\ UNCHANGED metVars

\* pd.DataFrame(rows).to_csv(cfg.out_forecasts): the recursive script ends
\* and the direct script starts its loops
Band(c) == c.h_start..(IF c.h_end < c.horizons_max THEN c.h_end
                       ELSE c.horizons_max)

RecWrite ==
    /\ phase = "rec_write"
    /\ ci' = 1 /\ co' = 1 /\ h' = cfg.h_start
    /\ phase' = IF Band(cfg) = {} THEN "merge" ELSE "dir_task"
    /\ UNCHANGED <<store, cfg, cuts, feat, hist, use_cols, model, xs, rows,
                   mid, merged, log>>
    /\ UNCHANGED blendVars
    /\ UNCHANGED applyVars
    /\ UNCHANGED metVars

----------------------------------------------------------------------------
(* phase4_train_direct_mid.py: the direct mid-horizon forecaster *)

\* (mutant) the direct window without the horizon: dfc[dfc["k"] <= k_cut]
DirTrainRows_NoHorizon(F, c, k_cut, hh) ==
    LET P(r) == r.k <= k_cut IN SelectSeq(F[c], P)

\* dfc[dfc["k"] <= (k_cut - h)]
DirTrainRows(F, c, k_cut, hh) ==
    LET P(r) == r.k <= k_cut - hh IN SelectSeq(F[c], P)

\* targ_at(k): the anomaly at k + h, or NaN
targ_at(L, c, k, hh) ==
    IF Has(L, c, k + hh) THEN L[c][k + hh].anomaly_c ELSE NaN

\* train["y_target"] = train["k"].apply(targ_at); train.dropna(["y_target"])
WithTarget(L, c, train, hh) ==
    LET t == [i \in 1..Len(train) |->
                 [row |-> train[i], y_target |-> targ_at(L, c, train[i].k, hh),
                  y_key |-> train[i].k + hh]]
        P(r) == NotNa(r.y_target)
    IN SelectSeq(t, P)

\* fit_ridge_timeaware of phase4_train_direct_mid.py on a sample below 60 rows
fit_ridge_direct(X, y, alphas) == RidgeFit(X, y, alphas[1])

\* what the body of the (cutoff, country, h) loop decides: whether a model
\* is fitted, and whether a row is predicted from it
DirTask(F, L, columns, c, k_cut, hh, floor) ==
    LET train0 == DirTrainRows(F, c, k_cut, hh)
        cols == UsableCols(select_features(columns), columns, train0)
        train == WithTarget(L, c, train0, hh)
        X == [i \in 1..Len(train) |->
                 [col \in Range(cols) |-> train[i].row[col]]]
        y == [i \in 1..Len(train) |-> train[i].y_target]
        P(r) == r.k = k_cut
        xrow == SelectSeq(F[c], P)
        fit == /\ Len(train0) >= floor
               /\ cols # <<>>
               /\ Len(train) >= floor
               /\ ~HasNaN(X, y)
    IN [train |-> train, cols |-> cols, X |-> X, y |-> y, fit |-> fit,
        xrow |-> xrow,
        emit |-> /\ fit
                 /\ Has(L, c, k_cut + hh)
                 /\ xrow # <<>>
                 /\ \A col \in Range(cols) : NotNa(xrow[1][col])]

\* (mutant) `break` in place of `continue`: the next (cutoff, country)
DirAdvance_Break ==
    /\ h' = cfg.h_start
    /\ IF co < Len(CountryOrder)
       THEN /\ co' = co + 1 /\ ci' = ci /\ phase' = "dir_task"
       ELSE /\ co' = 1 /\ ci' = ci + 1
            /\ phase' = IF ci + 1 > Len(cuts) THEN "merge" ELSE "dir_task"

\* the next (cutoff, country, h) of the three nested loops
DirAdvance ==
    IF h + 1 \in Band(cfg)
    THEN /\ h' = h + 1 /\ co' = co /\ ci' = ci /\ phase' = "dir_task"
    ELSE /\ h' = cfg.h_start
         /\ IF co < Len(CountryOrder)
            THEN /\ co' = co + 1 /\ ci' = ci /\ phase' = "dir_task"
            ELSE /\ co' = 1 /\ ci' = ci + 1
                 /\ phase' = IF ci + 1 > Len(cuts) THEN "merge"
                             ELSE "dir_task"

DirCall == DirTask(feat, store, FeatColumns(cfg), Country, K_cut, h,
                   cfg.min_train_rows)

DirModel(t) ==
    [fit |-> fit_ridge_direct(t.X, t.y, cfg.alphas),
     fitted |-> TRUE, mode |-> "ridge_direct",
     country |-> Country, k_cut |-> K_cut, horizon |-> h,
     keys |-> {t.train[i].row.k : i \in 1..Len(t.train)},
     train_y |-> {<<t.train[i].row.k, t.y[i]>> : i \in 1..Len(t.train)},
     x_src |-> UNION {t.train[i].row.src[c] :
                         i \in 1..Len(t.train),
                         c \in Range(t.cols) \cap DOMAIN t.train[1].row.src},
     y_src |-> {t.train[i].y_key : i \in 1..Len(t.train)}]

\* one of the four `continue`s before the fit
DirSkip ==
    /\ phase = "dir_task"
    /\ ~DirCall.fit
    /\ DirAdvance
    /\ UNCHANGED <<store, cfg, cuts, feat, hist, use_cols, model, xs, rows,
                   mid, merged>>
    /\ UNCHANGED blendVars
    /\ UNCHANGED applyVars
    /\ UNCHANGED metVars
    /\ log' = log \cup {Event("skip", h)}

\* the model is fitted, then a `continue`: the target month, or the
\* predictor row at the cutoff, is missing or incomplete
DirFitNoRow ==
    /\ phase = "dir_task"
    /\ DirCall.fit /\ ~DirCall.emit
    /\ model' = DirModel(DirCall)
    /\ use_cols' = DirCall.cols
    /\ DirAdvance
    /\ UNCHANGED <<store, cfg, cuts, feat, hist, xs, rows, mid, merged, log>>
    /\ UNCHANGED blendVars
    /\ UNCHANGED applyVars
    /\ UNCHANGED metVars

DirEmit ==
    /\ phase = "dir_task"
    /\ DirCall.emit
    /\ model' = DirModel(DirCall)
    /\ use_cols' = DirCall.cols
    /\ LET t == DirCall
           k_tgt == K_cut + h
           clim == store[Country][k_tgt].clim_temp_c
           truth_c == store[Country][k_tgt].temp_c
           x == [col \in Range(t.cols) |-> t.xrow[1][col]]
           pred_anom == RidgePredict(fit_ridge_direct(t.X, t.y, cfg.alphas), x)
       IN mid' = Append(mid,
                [country |-> Country, year |-> key_to_ym(k_tgt)[1],
                 month |-> key_to_ym(k_tgt)[2], cutoff_ym |-> cuts[ci],
                 horizon |-> h, pred_anom |-> pred_anom,
                 pred_c |-> pred_anom + clim,
                 truth_c |-> truth_c, model |-> "ridge_direct"])
    /\ DirAdvance
    /\ UNCHANGED <<store, cfg, cuts, feat, hist, xs, rows, merged, log>>
    /\ UNCHANGED blendVars
    /\ UNCHANGED applyVars
    /\ UNCHANGED metVars

\* (mutant) the band's first horizon kept in the base table
KeepRows_Inclusive(base, h_start, h_end) ==
    LET P(r) == r.horizon <= h_start \/ r.horizon > h_end
    IN SelectSeq(base, P)

\* base[(base["horizon"] < h_start) | (base["horizon"] > h_end)]
KeepRows(base, h_start, h_end) ==
    LET P(r) == r.horizon < h_start \/ r.horizon > h_end
    IN SelectSeq(base, P)

CountryIdx(c) == CHOOSE i \in DOMAIN CountryOrder : CountryOrder[i] = c

\* the sort key (country, year, month, cutoff_ym, horizon) of a row
KeyOf(r) == <<CountryIdx(r.country), r.year, r.month,
              r.cutoff_ym[1], r.cutoff_ym[2], r.horizon>>

RECURSIVE LexLess(_, _)
LexLess(a, b) ==
    IF a = <<>> \/ b = <<>> THEN FALSE
    ELSE \/ Head(a) < Head(b)
         \/ Head(a) = Head(b) /\ LexLess(Tail(a), Tail(b))

RECURSIVE InsertRow(_, _)
InsertRow(sorted, r) ==
    IF sorted = <<>> THEN <<r>>
    ELSE IF LexLess(KeyOf(r), KeyOf(Head(sorted)))
         THEN <<r>> \o sorted
         ELSE <<Head(sorted)>> \o InsertRow(Tail(sorted), r)

\* DataFrame.sort_values(keycols): a stable sort
RECURSIVE sort_values(_)
sort_values(t) ==
    IF t = <<>> THEN <<>>
    ELSE InsertRow(sort_values(SubSeq(t, 1, Len(t) - 1)), Last(t))

\* merged = pd.concat([keep, mid]).sort_values(keycols); merged.to_csv(...)
Merge ==
    /\ phase = "merge"
    /\ merged' = sort_values(KeepRows(rows, cfg.h_start, cfg.h_end) \o mid)
    /\ phase' = "done"
    /\ UNCHANGED <<store, cfg, cuts, feat, ci, co, h, hist, use_cols, model,
                   xs, rows, mid, log>>
    /\ UNCHANGED blendVars
    /\ UNCHANGED applyVars
    /\ UNCHANGED metVars

Next ==
    \/ BuildFeatures
    \/ RecSkip \/ RecFit \/ RecStep \/ RecHaltMiss \/ RecHaltNaN \/ RecEnd
    \/ RecWrite
    \/ DirSkip \/ DirFitNoRow \/ DirEmit
    \/ Merge

Spec == Init /\ [][Next]_vars

\* A run of the recursive script with horizons_max above HistCap - HistSeed:
\* one cutoff, series that reach beyond the last horizon or end one month
\* before it.
InitLong ==
    /\ phase = "features"
    /\ \E p \in 1..NumPatterns, lay \in [Countries -> 6..8] :
          store = StoreOf(p, lay)
    /\ \E d \in {9, 12}, b \in {0, 15} :
          cfg = [horizons_max |-> LongH, min_train_rows |-> 2,
                 drop_optional |-> FALSE, damping |-> d, clip_anom |-> b,
                 blend |-> <<0, 0, 0>>, h_start |-> 2, h_end |-> 2,
                 alphas |-> <<10>>]
    /\ cuts = <<Cutoffs[1]>>
    /\ feat = [c \in Countries |-> <<>>]
    /\ ci = 1 /\ co = 1 /\ h = 0
    /\ hist = <<>> /\ use_cols = <<>> /\ model = NoModel /\ xs = <<>>
    /\ rows = <<>> /\ mid = <<>> /\ merged = <<>> /\ log = {}
    /\ args = <<>> /\ tabs = <<>> /\ df = <<>> /\ bi = 0
    /\ best_w = <<>> /\ out = <<>>
    /\ allow_overwrite = FALSE /\ forecasts = <<>> /\ lc = <<>>
    /\ country_files = <<>> /\ pi = 0 /\ out_files = <<>>
    /\ mtabs = <<>> /\ by_country = <<>> /\ global_m = <<>>
    /\ b_by_country = <<>> /\ b_global = <<>> /\ cmp = <<>> /\ wins = <<>>

NextLong == BuildFeatures \/ RecFit \/ RecStep \/ RecHaltMiss \/ RecEnd

SpecLong == InitLong /\ [][NextLong]_vars

----------------------------------------------------------------------------
(* phase4_blend_with_baselines.py: the baseline blender *)

GridSteps == 5         \* bound: the largest --grid_steps of the model

Inf == 999999

KEYS == <<"country", "year", "month", "cutoff_ym", "horizon">>

\* setup.json "buckets"
Buckets == <<[name |-> "h01_06", h_start |-> 1, h_end |-> 6],
             [name |-> "h07_12", h_start |-> 7, h_end |-> 12],
             [name |-> "h13_24", h_start |-> 13, h_end |-> 24]>>

RECURSIVE bucket_name(_, _)
bucket_name(hh, buckets) ==
    IF buckets = <<>> THEN "h_na"
    ELSE IF Head(buckets).h_start <= hh /\ hh <= Head(buckets).h_end
         THEN Head(buckets).name
         ELSE bucket_name(hh, Tail(buckets))

SameKey(a, b) == \A i \in DOMAIN KEYS : a[KEYS[i]] = b[KEYS[i]]

RECURSIVE Concat(_)
Concat(ss) == IF ss = <<>> THEN <<>> ELSE Head(ss) \o Concat(Tail(ss))

\* (mutant) an inner join: a left row without a match is dropped
LeftJoin_Inner(left, right, col) ==
    Concat([i \in DOMAIN left |->
        LET P(r) == SameKey(left[i], r)
            hits == SelectSeq(right, P)
        IN [j \in DOMAIN hits |->
               [f \in DOMAIN left[i] \cup {col} |->
                   IF f = col THEN hits[j].pred_c ELSE left[i][f]]]])

\* left.merge(right, on=KEYS, how="left") with right's pred_c renamed col:
\* one row per match, and one row with a missing col when there is none
LeftJoin(left, right, col) ==
    Concat([i \in DOMAIN left |->
        LET P(r) == SameKey(left[i], r)
            hits == SelectSeq(right, P)
            ext(v) == [f \in DOMAIN left[i] \cup {col} |->
                          IF f = col THEN v ELSE left[i][f]]
        IN IF hits = <<>> THEN <<ext(NaN)>>
           ELSE [j \in DOMAIN hits |-> ext(hits[j].pred_c)]])

Abs(v) == IF v < 0 THEN 0 - v ELSE v

\* (a - b).abs() with a missing operand
AbsErr(a, b) == IF IsNaN(a) \/ IsNaN(b) THEN NaN ELSE Abs(a - b)

\* (mutant) the lag-12 baseline on an exact tie
BestBase_TieToLag12(r) ==
    LET ae_clim == AbsErr(r.pred_c_clim, r.truth_c)
        ae_lag12 == AbsErr(r.pred_c_lag12, r.truth_c)
    IN IF NotNa(ae_clim) /\ NotNa(ae_lag12)
       THEN (IF ae_clim < ae_lag12 THEN r.pred_c_clim ELSE r.pred_c_lag12)
       ELSE (IF NotNa(r.pred_c_clim) THEN r.pred_c_clim ELSE r.pred_c_lag12)

\* the np.where of the best baseline of a row
BestBase(r) ==
    LET ae_clim == AbsErr(r.pred_c_clim, r.truth_c)
        ae_lag12 == AbsErr(r.pred_c_lag12, r.truth_c)
    IN IF NotNa(ae_clim) /\ NotNa(ae_lag12)
       THEN (IF ae_clim <= ae_lag12 THEN r.pred_c_clim ELSE r.pred_c_lag12)
       ELSE (IF NotNa(r.pred_c_clim) THEN r.pred_c_clim ELSE r.pred_c_lag12)

\* df after the joins, with pred_c_base and bucket
JoinedFrame(t) ==
    LET j == LeftJoin(LeftJoin(t.m, t.c, "pred_c_clim"), t.l, "pred_c_lag12")
    IN [i \in DOMAIN j |->
          [f \in DOMAIN j[i] \cup {"pred_c_base", "bucket"} |->
              IF f = "pred_c_base" THEN BestBase(j[i])
              ELSE IF f = "bucket" THEN bucket_name(j[i].horizon, Buckets)
              ELSE j[i][f]]]

\* weights are numerators over WDen: tenths, refined by the grid's step
WDen(a) == IF a.grid_steps > 1 THEN 10 * (a.grid_steps - 1) ELSE 10

\* np.linspace(w_min, w_max, num=grid_steps)
linspace(a) ==
    [i \in 1..a.grid_steps |->
        IF a.grid_steps = 1 THEN a.w_min
        ELSE a.w_min * (a.grid_steps - 1) + (i - 1) * (a.w_max - a.w_min)]

\* df[(df["bucket"]==name) & (df["pred_c_base"].notna())]
SubFrame(d, name) ==
    LET P(r) == r.bucket = name /\ NotNa(r.pred_c_base) IN SelectSeq(d, P)

\* the squared errors of p = (1-w)*mm + w*bb against y summed over the rows,
\* scaled by den^2: it orders the weights as the RMSE does; missing when a
\* truth is missing
Rmse(sub, w, den) ==
    IF \E i \in DOMAIN sub : IsNaN(sub[i].truth_c) THEN NaN
    ELSE SumSeq([i \in DOMAIN sub |->
            LET e == (den - w) * sub[i].pred_c + w * sub[i].pred_c_base
                     - den * sub[i].truth_c
            IN e * e])

\* (mutant) the comparison turned round
Better_Reversed(rmse, best) == NotNa(rmse) /\ (best = Inf \/ rmse > best)

\* rmse < best[1]
Better(rmse, best) == NotNa(rmse) /\ (best = Inf \/ rmse < best)

\* for w in grid: ... if rmse < best[1]: best = (w, rmse)
RECURSIVE GridSearch(_, _, _, _)
GridSearch(sub, grid, den, best) ==
    IF grid = <<>> THEN best
    ELSE LET w == Head(grid)
             rmse == Rmse(sub, w, den)
         IN GridSearch(sub, Tail(grid), den,
                       IF Better(rmse, best[2]) THEN <<w, rmse>> ELSE best)

\* the rows the blend script may be given: one per slot of the forecast
\* table, with the baselines' rows of the same key when they exist
SlotHorizon == <<7, 8, 13>>
SlotPred == <<1000, 1040, 1000>>

\* the truths a slot may have
SlotTruth == <<{1005, 1010, NaN}, {1010, 1015, NaN}, {1005, 1010, NaN}>>

ModelRow(i, truth) ==
    [country |-> "A", year |-> 2020, month |-> i, cutoff_ym |-> <<2019, 12>>,
     horizon |-> SlotHorizon[i], pred_anom |-> SlotPred[i] - 1000,
     pred_c |-> SlotPred[i], truth_c |-> truth, model |-> "ridge"]

BaseRow(i, v) ==
    [country |-> "A", year |-> 2020, month |-> i, cutoff_ym |-> <<2019, 12>>,
     horizon |-> SlotHorizon[i], pred_c |-> v]

Present(i, v) == IF IsNaN(v) THEN <<>> ELSE <<BaseRow(i, v)>>

\* the last slot's rows moved to a horizon that is in no bucket
AtHorizon(t, hz) ==
    [i \in DOMAIN t |->
        IF t[i].horizon = SlotHorizon[Len(SlotHorizon)]
        THEN [t[i] EXCEPT !.horizon = hz] ELSE t[i]]

\* a second row with the key of the table's first row
Twice(t, dup) ==
    IF dup /\ t # <<>> THEN t \o <<[t[1] EXCEPT !.pred_c = @ + 10]>> ELSE t

Tables ==
    {[m |-> AtHorizon([i \in DOMAIN SlotHorizon |-> ModelRow(i, t[i])], hz),
      c |-> AtHorizon(Twice(Concat([i \in DOMAIN SlotHorizon |->
                                       Present(i, c[i])]), dup), hz),
      l |-> AtHorizon(Concat([i \in DOMAIN SlotHorizon |->
                                 Present(i, l[i])]), hz)] :
        t \in {f \in [DOMAIN SlotHorizon -> UNION Range(SlotTruth)] :
                  \A i \in DOMAIN SlotHorizon : f[i] \in SlotTruth[i]},
        c \in [DOMAIN SlotHorizon -> {1020, NaN}],
        l \in [DOMAIN SlotHorizon -> {1000, NaN}],
        hz \in {13, 25},
        dup \in BOOLEAN}

BlendArgs ==
    {a \in [w_min : {0, 2}, w_max : {8}, grid_steps : {1, GridSteps},
            buckets_to_opt : {<<"h07_12", "h13_24">>, <<"h13_24">>}] :
        a.w_min <= a.w_max}

InitBlend ==
    /\ phase = "blend_join"
    /\ args \in BlendArgs
    /\ tabs \in Tables
    /\ df = <<>> /\ bi = 1 /\ best_w = <<>> /\ out = <<>>
    /\ allow_overwrite = FALSE /\ forecasts = <<>> /\ lc = <<>>
    /\ country_files = <<>> /\ pi = 0 /\ out_files = <<>>
    /\ mtabs = <<>> /\ by_country = <<>> /\ global_m = <<>>
    /\ b_by_country = <<>> /\ b_global = <<>> /\ cmp = <<>> /\ wins = <<>>
    /\ store = <<>> /\ cfg = <<>> /\ cuts = <<>> /\ feat = <<>>
    /\ ci = 0 /\ co = 0 /\ h = 0
    /\ hist = <<>> /\ use_cols = <<>> /\ model = NoModel /\ xs = <<>>
    /\ rows = <<>> /\ mid = <<>> /\ merged = <<>> /\ log = {}

\* the joins, the best baseline and the bucket of every row
BlendJoin ==
    /\ phase = "blend_join"
    /\ df' = JoinedFrame(tabs)
    /\ phase' = "blend_opt"
    /\ UNCHANGED <<args, tabs, bi, best_w, out>>
    /\ UNCHANGED pipeVars
    /\ UNCHANGED applyVars
    /\ UNCHANGED metVars

BucketName == args.buckets_to_opt[bi]

SetWeight(w) ==
    /\ best_w' = [n \in DOMAIN best_w \cup {BucketName} |->
                     IF n = BucketName THEN w ELSE best_w[n]]
    /\ bi' = bi + 1
    /\ phase' = IF bi + 1 > Len(args.buckets_to_opt) THEN "blend_apply"
                ELSE "blend_opt"

\* if sub.empty: best_w[name] = 0.0
BlendOptEmpty ==
    /\ phase = "blend_opt"
    /\ SubFrame(df, BucketName) = <<>>
    /\ SetWeight(0)
    /\ UNCHANGED <<args, tabs, df, out>>
    /\ UNCHANGED pipeVars
    /\ UNCHANGED applyVars
    /\ UNCHANGED metVars

\* the grid search of one bucket
BlendOptSearch ==
    /\ phase = "blend_opt"
    /\ SubFrame(df, BucketName) # <<>>
    /\ SetWeight(GridSearch(SubFrame(df, BucketName), linspace(args),
                            WDen(args), <<0, Inf>>)[1])
    /\ UNCHANGED <<args, tabs, df, out>>
    /\ UNCHANGED pipeVars
    /\ UNCHANGED applyVars
    /\ UNCHANGED metVars

\* (mutant) the bucket's weight also where the best baseline is missing
BlendW_NoMask(r) ==
    IF r.bucket \in DOMAIN best_w THEN best_w[r.bucket] ELSE 0

\* blend_w of a row: the bucket's weight, 0 without a best baseline
BlendW(r) ==
    IF IsNaN(r.pred_c_base) THEN 0
    ELSE IF r.bucket \in DOMAIN best_w THEN best_w[r.bucket] ELSE 0

\* (1 - blend_w) * pred_c + blend_w * pred_c_base.fillna(0.0)
Blended(r, den) ==
    LET w == BlendW(r)
        b == IF IsNaN(r.pred_c_base) THEN 0 ELSE r.pred_c_base
    IN ((den - w) * r.pred_c + w * b) \div den

\* (mutant) the joined frame written with all its columns, and the blend
\* written over pred_anom too
BlendApply_AllCols ==
    /\ phase = "blend_apply"
    /\ out' = [i \in DOMAIN df |->
                  [f \in DOMAIN df[i] |->
                      IF f \in {"pred_c", "pred_anom"}
                      THEN Blended(df[i], WDen(args)) ELSE df[i][f]]]
    /\ phase' = "blend_done"
    /\ UNCHANGED <<args, tabs, df, bi, best_w>>
    /\ UNCHANGED pipeVars
    /\ UNCHANGED applyVars
    /\ UNCHANGED metVars

\* the blend applied, and df[out_cols] written
BlendApply ==
    /\ phase = "blend_apply"
    /\ out' = [i \in DOMAIN df |->
                  [f \in DOMAIN tabs.m[1] |->
                      IF f = "pred_c" THEN Blended(df[i], WDen(args))
                      ELSE df[i][f]]]
    /\ phase' = "blend_done"
    /\ UNCHANGED <<args, tabs, df, bi, best_w>>
    /\ UNCHANGED pipeVars
    /\ UNCHANGED applyVars
    /\ UNCHANGED metVars

NextBlend == BlendJoin \/ BlendOptEmpty \/ BlendOptSearch \/ BlendApply

SpecBlend == InitBlend /\ [][NextBlend]_vars

----------------------------------------------------------------------------
(* phase5_apply_forecasts_to_country_files.py: forecasts appended to the   *)
(* country files                                                           *)

MaxLead == 3           \* bound: the horizons of a short forecast

HeadCap == 60

ym_key(y, m) == y * 12 + (m - 1)
midmonth(y, m) == <<y, m, 15>>

\* sorted(df["cutoff_ym"].unique(), key=k)[-1]
latest_cutoff(t) ==
    LET u == {t[i].cutoff_ym : i \in DOMAIN t}
    IN CHOOSE s \in u : \A x \in u : ym_key(x[1], x[2]) <= ym_key(s[1], s[2])

\* the forecasts of a country at a cutoff for the given horizons, latest
\* month first
FcRows(c, cym, leads) ==
    LET hs == [i \in 1..Cardinality(leads) |->
                  CHOOSE x \in leads :
                      Cardinality({y \in leads : y > x}) = i - 1]
    IN [i \in DOMAIN hs |->
          LET ym == key_to_ym(ym_key(cym[1], cym[2]) + hs[i])
          IN [country |-> c, year |-> ym[1], month |-> ym[2],
              cutoff_ym |-> cym, horizon |-> hs[i],
              pred_c |-> 1000 + 10 * hs[i] + cym[2]]]

\* a country file with the n months that end at TimeKey last
FileRows(c, last, n) ==
    [i \in 1..n |->
        LET ym == key_to_ym(last - n + i)
        IN [date |-> midmonth(ym[1], ym[2]), year |-> ym[1],
            month |-> ym[2], temp_c |-> 900 + i, country |-> c]]

LeadSets == {1..MaxLead, {1, MaxLead}, 2..MaxLead, 1..(HeadCap + 2)}

\* sorted(cdir.glob("*.csv"))
FileNames == <<"A", "B", "C">>

\* the forecasts tables and the country directories of the model; the file
\* of C is empty and no forecast is for C
ApplyInputs ==
    {[F |-> FcRows("A", <<2019, 11>>, old) \o FcRows("A", <<2019, 12>>, la)
              \o FcRows("B", <<2019, 12>>, lb),
      files |-> [n \in Range(FileNames) |->
                    CASE n = "A" -> FileRows("A", lastA, 3)
                      [] n = "B" -> FileRows("B", ym_key(2019, 12), 2)
                      [] n = "C" -> <<>>],
      allow_overwrite |-> ow] :
        old \in {{}, 1..MaxLead}, la \in LeadSets, lb \in {{}, 1..MaxLead},
        lastA \in {ym_key(2019, 11), ym_key(2019, 12), ym_key(2020, 1)},
        ow \in BOOLEAN}

InitApply ==
    /\ phase = "apply_load"
    /\ \E inp \in ApplyInputs :
          /\ forecasts = inp.F
          /\ country_files = inp.files
          /\ allow_overwrite = inp.allow_overwrite
    /\ lc = <<>> /\ pi = 1 /\ out_files = <<>>
    /\ mtabs = <<>> /\ by_country = <<>> /\ global_m = <<>>
    /\ b_by_country = <<>> /\ b_global = <<>> /\ cmp = <<>> /\ wins = <<>>
    /\ args = <<>> /\ tabs = <<>> /\ df = <<>> /\ bi = 0
    /\ best_w = <<>> /\ out = <<>>
    /\ store = <<>> /\ cfg = <<>> /\ cuts = <<>> /\ feat = <<>>
    /\ ci = 0 /\ co = 0 /\ h = 0
    /\ hist = <<>> /\ use_cols = <<>> /\ model = NoModel /\ xs = <<>>
    /\ rows = <<>> /\ mid = <<>> /\ merged = <<>> /\ log = {}

\* lc = latest_cutoff(F): the rows of F used from here on are those at lc
ApplyLatest ==
    /\ phase = "apply_load"
    /\ forecasts # <<>>
    /\ lc' = latest_cutoff(forecasts)
    /\ phase' = "apply_file"
    /\ UNCHANGED <<allow_overwrite, forecasts, country_files, pi, out_files>>
    /\ UNCHANGED pipeVars
    /\ UNCHANGED blendVars
    /\ UNCHANGED metVars

\* sort_values("k"): a stable sort; the row at place p is the row with
\* p - 1 rows before it in the order of (k, position)
SortByK(t) ==
    LET Before(j, i) == t[j].k < t[i].k \/ (t[j].k = t[i].k /\ j < i)
        Place(i) == Cardinality({j \in DOMAIN t : Before(j, i)}) + 1
    IN [p \in DOMAIN t |-> t[CHOOSE i \in DOMAIN t : Place(i) = p]]

\* F_idx.loc[file_country]: the rows of F at the cutoff of that country,
\* with their TimeKey k; empty on a KeyError
F_idx(t, cutoff, c) ==
    LET P(r) == r.cutoff_ym = cutoff /\ r.country = c
        sel == SelectSeq(t, P)
    IN SortByK([i \in DOMAIN sel |->
                   [country |-> sel[i].country, year |-> sel[i].year,
                    month |-> sel[i].month, pred_c |-> sel[i].pred_c,
                    k |-> ym_key(sel[i].year, sel[i].month)]])

file_country(name, d) == IF d # <<>> THEN d[1].country ELSE name

last_k(d) ==
    IF d = <<>> THEN 0 - 1
    ELSE MaxOf({ym_key(d[i].year, d[i].month) : i \in DOMAIN d})

\* sub[sub["k"] > last_k].sort_values("k").head(60)
NextMonths(t, cutoff, name, d) ==
    LET P(r) == r.k > last_k(d)
        sub == SortByK(SelectSeq(F_idx(t, cutoff, file_country(name, d)), P))
    IN SubSeq(sub, 1, IF Len(sub) < HeadCap THEN Len(sub) ELSE HeadCap)

\* the rows built from sub
AddRows(sub, c) ==
    [i \in DOMAIN sub |->
        [date |-> midmonth(key_to_ym(sub[i].k)[1], key_to_ym(sub[i].k)[2]),
         year |-> key_to_ym(sub[i].k)[1], month |-> key_to_ym(sub[i].k)[2],
         temp_c |-> sub[i].pred_c, country |-> c]]

\* with --allow_overwrite: the rows of df whose (year, month) is not in add
DropExisting(d, add) ==
    LET P(r) == ~\E j \in DOMAIN add :
                    add[j].year = r.year /\ add[j].month = r.month
    IN SelectSeq(d, P)

FileName == FileNames[pi]

WriteFile(rws) ==
    /\ out_files' = [n \in DOMAIN out_files \cup {FileName} |->
                        IF n = FileName THEN rws ELSE out_files[n]]
    /\ pi' = pi + 1
    /\ phase' = IF pi + 1 > Len(FileNames) THEN "apply_done" ELSE "apply_file"

\* added = 0; out = df: no forecast of the file's country is after its
\* last month
ApplyKeep ==
    /\ phase = "apply_file"
    /\ NextMonths(forecasts, lc, FileName, country_files[FileName]) = <<>>
    /\ WriteFile(country_files[FileName])
    /\ UNCHANGED <<allow_overwrite, forecasts, lc, country_files>>
    /\ UNCHANGED pipeVars
    /\ UNCHANGED blendVars
    /\ UNCHANGED metVars

\* out = pd.concat([df, add])
ApplyAppend ==
    /\ phase = "apply_file"
    /\ LET d == country_files[FileName]
           sub == NextMonths(forecasts, lc, FileName, d)
           add == AddRows(sub, file_country(FileName, d))
       IN /\ sub # <<>>
          /\ WriteFile((IF allow_overwrite THEN DropExisting(d, add) ELSE d)
                       \o add)
    /\ UNCHANGED <<allow_overwrite, forecasts, lc, country_files>>
    /\ UNCHANGED pipeVars
    /\ UNCHANGED blendVars
    /\ UNCHANGED metVars

NextApply == ApplyLatest \/ ApplyKeep \/ ApplyAppend

SpecApply == InitApply /\ [][NextApply]_vars

----------------------------------------------------------------------------
(* phase4_metrics.py: the metrics evaluator                                *)

RowsA == 3             \* bound: rows of country A in the first bucket

\* the names a group-by on "bucket" yields its groups in (sorted)
BucketNames == <<"h01_06", "h07_12", "h13_24", "h_na">>
Baselines == <<"climatology", "lag12">>

\* the (country, horizon) of the rows of a forecast table
MetSlots ==
    [i \in 1..RowsA |-> <<"A", i>>] \o <<<<"B", 1>>, <<"A", 7>>, <<"B", 7>>>>

\* the tables the script reads: the model's rows with errors of 0.1 or 0.3
\* and two truths that may be unknown, the climatology baseline with one
\* error on every row, the lag-12 baseline with an error of 0.3, and both
\* baselines with or without their last row
MetInputs ==
    LET MetRow(i, err, truth) ==
            [country |-> MetSlots[i][1], horizon |-> MetSlots[i][2],
             pred_c |-> 1000 + err, truth_c |-> truth]
    IN
    {[m |-> [i \in DOMAIN MetSlots |->
                MetRow(i, em[i], IF i \in un THEN NaN ELSE 1000)],
      b1 |-> [i \in 1..(Len(MetSlots) - drop) |-> MetRow(i, ec, 1000)],
      b2 |-> [i \in 1..(Len(MetSlots) - drop) |->
                 MetRow(i, 30, IF i + 1 \in un THEN NaN ELSE 1000)]] :
        em \in [DOMAIN MetSlots -> {10, 30}],
        un \in SUBSET {2, Len(MetSlots)},
        ec \in {0, 20, 30, 40},
        drop \in {0, 1}}

\* the columns ae, se and bucket added to a table, and the column baseline
\* (for the model's table: who)
Scored(t, who) ==
    [i \in DOMAIN t |->
        LET ae == AbsErr(t[i].pred_c, t[i].truth_c)
        IN [country |-> t[i].country, who |-> who,
            ae |-> ae, se |-> IF IsNaN(ae) THEN NaN ELSE ae * ae,
            bucket |-> bucket_name(t[i].horizon, Buckets)]]

\* Series.mean(): the mean of the values present, NaN when there is none
MeanSkipNa(s) ==
    LET known == SelectSeq(s, NotNa)
    IN IF known = <<>> THEN NaN ELSE Mean(known)

\* one group of groupby(["country", ("baseline",) "bucket"]).agg(n, MAE, RMSE)
GroupStats(t, c, who, b) ==
    LET P(r) == r.country = c /\ r.who = who /\ r.bucket = b
        g == SelectSeq(t, P)
        ae == [i \in DOMAIN g |-> g[i].ae]
        se == [i \in DOMAIN g |-> g[i].se]
        \* np.sqrt of a value that may be missing
        sqrt(v) == IF IsNaN(v) THEN NaN ELSE ISqrt(v)
    IN IF g = <<>> THEN <<>>
       ELSE <<[country |-> c, who |-> who, bucket |-> b,
               n |-> Len(SelectSeq(ae, NotNa)),
               MAE |-> MeanSkipNa(ae), RMSE |-> sqrt(MeanSkipNa(se))]>>

\* the statistics per (country, who, bucket), groups in sorted key order
StatsByCountry(t, whos) ==
    Concat([c \in DOMAIN CountryOrder |->
        Concat([w \in DOMAIN whos |->
            Concat([b \in DOMAIN BucketNames |->
                GroupStats(t, CountryOrder[c], whos[w], BucketNames[b])])])])

\* (mutant) the countries weighted by their row counts
GlobalGroup_Weighted(stats, who, b) ==
    LET P(r) == r.who = who /\ r.bucket = b
        g == SelectSeq(stats, P)
        Q(r) == r.n > 0
        k == SelectSeq(g, Q)
        tot == SumSeq([i \in DOMAIN k |-> k[i].n])
    IN IF g = <<>> THEN <<>>
       ELSE <<[who |-> who, bucket |-> b,
               countries |-> Cardinality({g[i].country : i \in DOMAIN g}),
               MAE |-> IF k = <<>> THEN NaN
                       ELSE SumSeq([i \in DOMAIN k |-> k[i].n * k[i].MAE])
                                \div tot,
               RMSE |-> IF k = <<>> THEN NaN
                        ELSE SumSeq([i \in DOMAIN k |-> k[i].n * k[i].RMSE])
                                 \div tot]>>

\* one group of groupby(["who" or "baseline", "bucket"]).agg(countries, MAE,
\* RMSE)
GlobalGroup(stats, who, b) ==
    LET P(r) == r.who = who /\ r.bucket = b
        g == SelectSeq(stats, P)
    IN IF g = <<>> THEN <<>>
       ELSE <<[who |-> who, bucket |-> b,
               countries |-> Cardinality({g[i].country : i \in DOMAIN g}),
               MAE |-> MeanSkipNa([i \in DOMAIN g |-> g[i].MAE]),
               RMSE |-> MeanSkipNa([i \in DOMAIN g |-> g[i].RMSE])]>>

GlobalStats(stats, whos) ==
    Concat([w \in DOMAIN whos |->
        Concat([b \in DOMAIN BucketNames |->
            GlobalGroup(stats, whos[w], BucketNames[b])])])

\* (mutant) the first baseline of a (country, bucket), whatever its RMSE
BestOf_First(bstats, c, b) ==
    LET P(r) == r.country = c /\ r.bucket = b
        g == SelectSeq(bstats, P)
    IN IF g = <<>> THEN <<>> ELSE <<g[1]>>

\* sort_values(["country","bucket","RMSE"]).groupby(["country","bucket"])
\* .head(1): the row of the smallest RMSE, a missing RMSE last, rows of one
\* RMSE in the order they had
BestOf(bstats, c, b) ==
    LET P(r) == r.country = c /\ r.bucket = b
        g == SelectSeq(bstats, P)
        Q(r) == NotNa(r.RMSE)
        k == SelectSeq(g, Q)
        lo == MinOf({k[i].RMSE : i \in DOMAIN k})
        R(r) == r.RMSE = lo
    IN IF g = <<>> THEN <<>>
       ELSE IF k = <<>> THEN <<g[1]>> ELSE <<SelectSeq(k, R)[1]>>

\* a quotient in parts per PctDen, as floating point has it: a missing
\* operand or 0/0 gives NaN, a division of a negative by 0 gives -inf
PctDen == 10000
Quotient(num, den) ==
    IF IsNaN(num) \/ IsNaN(den) THEN NaN
    ELSE IF den = 0 THEN (IF num = 0 THEN NaN
                          ELSE IF num < 0 THEN 0 - Inf ELSE Inf)
    ELSE (num * PctDen) \div den

\* cmp = model_c.merge(best_b, on=["country","bucket"], how="inner") with
\* the column improvement_pct
Compare(stats, bstats) ==
    Concat([i \in DOMAIN stats |->
        LET r == stats[i]
            best == BestOf(bstats, r.country, r.bucket)
            \* a difference with a missing operand
            minus(a, b) == IF IsNaN(a) \/ IsNaN(b) THEN NaN ELSE a - b
        IN IF best = <<>> THEN <<>>
           ELSE <<[country |-> r.country, bucket |-> r.bucket,
                   MAE_model |-> r.MAE, RMSE_model |-> r.RMSE,
                   best_baseline |-> best[1].who,
                   RMSE_best |-> best[1].RMSE, MAE_best |-> best[1].MAE,
                   improvement_pct |->
                       Quotient(minus(best[1].RMSE, r.RMSE),
                                best[1].RMSE)]>>])

\* cmp.groupby("bucket")["improvement_pct"].apply((s > 0).mean()), the share
\* in parts per PctDen
Wins(c) ==
    Concat([b \in DOMAIN BucketNames |->
        LET P(r) == r.bucket = BucketNames[b]
            g == SelectSeq(c, P)
            \* s > 0 is False on a missing value
            Q(r) == NotNa(r.improvement_pct) /\ r.improvement_pct > 0
        IN IF g = <<>> THEN <<>>
           ELSE <<[bucket |-> BucketNames[b],
                   share |-> (Len(SelectSeq(g, Q)) * PctDen) \div Len(g)]>>])

InitMetrics ==
    /\ phase = "met_model"
    /\ mtabs \in MetInputs
    /\ by_country = <<>> /\ global_m = <<>>
    /\ b_by_country = <<>> /\ b_global = <<>> /\ cmp = <<>> /\ wins = <<>>
    /\ allow_overwrite = FALSE /\ forecasts = <<>> /\ lc = <<>>
    /\ country_files = <<>> /\ pi = 0 /\ out_files = <<>>
    /\ args = <<>> /\ tabs = <<>> /\ df = <<>> /\ bi = 0
    /\ best_w = <<>> /\ out = <<>>
    /\ store = <<>> /\ cfg = <<>> /\ cuts = <<>> /\ feat = <<>>
    /\ ci = 0 /\ co = 0 /\ h = 0
    /\ hist = <<>> /\ use_cols = <<>> /\ model = NoModel /\ xs = <<>>
    /\ rows = <<>> /\ mid = <<>> /\ merged = <<>> /\ log = {}

\* by_country and global_m
MetModel ==
    /\ phase = "met_model"
    /\ by_country' = StatsByCountry(Scored(mtabs.m, "model_ridge"),
                                    <<"model_ridge">>)
    /\ global_m' = GlobalStats(by_country', <<"model_ridge">>)
    /\ phase' = "met_base"
    /\ UNCHANGED <<mtabs, b_by_country, b_global, cmp, wins>>
    /\ UNCHANGED pipeVars
    /\ UNCHANGED blendVars
    /\ UNCHANGED applyVars

\* b = pd.concat([b1, b2]); b_by_country and b_global
MetBase ==
    /\ phase = "met_base"
    /\ b_by_country' = StatsByCountry(Scored(mtabs.b1, Baselines[1])
                                      \o Scored(mtabs.b2, Baselines[2]),
                                      Baselines)
    /\ b_global' = GlobalStats(b_by_country', Baselines)
    /\ phase' = "met_decide"
    /\ UNCHANGED <<mtabs, by_country, global_m, cmp, wins>>
    /\ UNCHANGED pipeVars
    /\ UNCHANGED blendVars
    /\ UNCHANGED applyVars

\* best_b, cmp and wins; the reports are written
MetDecide ==
    /\ phase = "met_decide"
    /\ cmp' = Compare(by_country, b_by_country)
    /\ wins' = Wins(cmp')
    /\ phase' = "met_done"
    /\ UNCHANGED <<mtabs, by_country, global_m, b_by_country, b_global>>
    /\ UNCHANGED pipeVars
    /\ UNCHANGED blendVars
    /\ UNCHANGED applyVars

NextMetrics == MetModel \/ MetBase \/ MetDecide

SpecMetrics == InitMetrics /\ [][NextMetrics]_vars

----------------------------------------------------------------------------
(* The claims *)

TaskRows(t, c, kc) ==
    {i \in DOMAIN t : t[i].country = c /\ parse_ym(t[i].cutoff_ym) = kc}

\* C1: in recursive mode every training row of a fitted model has TimeKey
\* <= the cutoff, and no anomaly at a TimeKey above the cutoff enters the
\* fit, through a feature column or through the regression target.
C1_RecursiveFitSeesNoFuture ==
    (model.fitted /\ model.mode = "ridge") =>
        \A k \in model.keys \cup model.x_src \cup model.y_src :
            k <= model.k_cut

\* C2: in direct mode every training row of a fitted model has TimeKey
\* k <= cutoff - h, its target is the store's anomaly at k + h (so at a
\* TimeKey <= cutoff), and no row whose anomaly at k + h is absent is used.
C2_DirectTrainWindow ==
    (model.fitted /\ model.mode = "ridge_direct") =>
        /\ \A k \in model.keys : k <= model.k_cut - model.horizon
        /\ {p[1] : p \in model.train_y} = model.keys
        /\ model.y_src = {k + model.horizon : k \in model.keys}
        /\ \A p \in model.train_y :
              /\ p[1] + model.horizon <= model.k_cut
              /\ Has(store, model.country, p[1] + model.horizon)
              /\ p[2] = store[model.country][p[1] + model.horizon].anomaly_c

\* a direct model was fitted on several rows after a row of the window was
\* dropped because the store holds no anomaly at k + h
C2_Witness ==
    /\ model.fitted /\ model.mode = "ridge_direct"
    /\ Cardinality(model.keys) >= 2
    /\ \E i \in DOMAIN feat[model.country] :
          LET k == feat[model.country][i].k
          IN /\ k <= model.k_cut - model.horizon
             /\ ~Has(store, model.country, k + model.horizon)

\* C3: the records of a (country, cutoff) are those of horizons 1..n,
\* n <= horizons_max, emitted in order; every month cutoff+1 .. cutoff+n is
\* in the store; and a loop halted at horizon h (missing month or missing
\* feature) has no record of a horizon >= h.
C3_ContiguousPrefix ==
    /\ \A i \in DOMAIN rows :
          LET r == rows[i]
              kc == parse_ym(r.cutoff_ym)
          IN /\ r.horizon \in 1..cfg.horizons_max
             /\ \A j \in 1..r.horizon : Has(store, r.country, kc + j)
             /\ r.horizon > 1 =>
                   \E i2 \in 1..(i - 1) :
                       /\ i2 \in TaskRows(rows, r.country, kc)
                       /\ rows[i2].horizon = r.horizon - 1
    /\ \A e \in log :
          e.kind \in {"miss", "nan"} =>
              \A i \in TaskRows(rows, e.country, e.k_cut) :
                  rows[i].horizon < e.horizon

\* the job is done; one loop halted at a horizon >= 2 on a missing month
\* although the month after it is in the store and within horizons_max,
\* and another loop halted on a missing feature
C3_Witness ==
    /\ phase = "done"
    /\ \E e \in log :
          /\ e.kind = "miss" /\ e.horizon >= 2
          /\ e.horizon + 1 <= cfg.horizons_max
          /\ Has(store, e.country, e.k_cut + e.horizon + 1)
          /\ TaskRows(rows, e.country, e.k_cut) # {}
    /\ \E e \in log : e.kind = "nan"

\* the predicted anomaly of horizon hh of the recursive task of the model
PredOf(hh) ==
    LET i == CHOOSE j \in TaskRows(rows, model.country, model.k_cut) :
                 rows[j].horizon = hh
    IN rows[i].pred_anom

\* C4: with damping_factor in [0, 1], after horizon h emitted p_h the value
\* appended to the history buffer is damping_factor * p_h, and anomaly_lag1
\* at horizon h+1 is exactly that value.
C4_DampedFeedback ==
    (model.fitted /\ model.mode = "ridge" /\ cfg.damping \in 0..10) =>
        /\ Cardinality(TaskRows(rows, model.country, model.k_cut)) = Len(xs)
        /\ \A i \in 2..Len(xs) :
              xs[i]["anom_lag1"] = (cfg.damping * PredOf(i - 1)) \div 10
        /\ Len(xs) >= 1 =>
              Last(hist) = (cfg.damping * PredOf(Len(xs))) \div 10

\* horizon 2 was predicted with damping 0.9 from a lag that is 0.9 * p1 and
\* is neither p1 nor the true anomaly of the month after the cutoff
C4_Witness ==
    /\ model.fitted /\ model.mode = "ridge" /\ cfg.damping = 9
    /\ Len(xs) >= 2
    /\ xs[2]["anom_lag1"] = (9 * PredOf(1)) \div 10
    /\ xs[2]["anom_lag1"] # PredOf(1)
    /\ xs[2]["anom_lag1"] #
          store[model.country][model.k_cut + 1].anomaly_c

InBand(r) == cfg.h_start <= r.horizon /\ r.horizon <= cfg.h_end

\* C5: the merged table holds every base row outside [h_start, h_end]
\* unchanged, no base row inside it, and inside it only rows the direct
\* forecaster produced.
C5_MergeReplacesBand ==
    phase = "done" =>
        /\ \A i \in DOMAIN rows :
              IF InBand(rows[i]) THEN rows[i] \notin Range(merged)
              ELSE Cardinality({j \in DOMAIN merged : merged[j] = rows[i]}) = 1
        /\ \A j \in DOMAIN merged :
              IF InBand(merged[j])
              THEN merged[j] \in Range(mid) /\ merged[j].model = "ridge_direct"
              ELSE merged[j] \in Range(rows)
        /\ Len(merged) =
              Cardinality({i \in DOMAIN rows : ~InBand(rows[i])}) + Len(mid)

\* a merge with base rows on both sides of the band and a direct row
C5_Witness ==
    /\ phase = "done"
    /\ \E i \in DOMAIN rows : InBand(rows[i])
    /\ \E i \in DOMAIN rows : ~InBand(rows[i]) /\ rows[i].horizon > cfg.h_end
    /\ \E i \in DOMAIN rows : rows[i].horizon < cfg.h_start
    /\ \E j \in DOMAIN merged : merged[j].model = "ridge_direct"

\* w_min <= w <= w_max for w = n / WDen and the bounds in tenths
InRange(n) ==
    /\ args.w_min * WDen(args) <= 10 * n
    /\ 10 * n <= args.w_max * WDen(args)

\* the rows of a bucket with a truth and a best baseline
Usable(name) ==
    LET P(r) == r.bucket = name /\ NotNa(r.pred_c_base) /\ NotNa(r.truth_c)
    IN SelectSeq(df, P)

\* C6: the weight chosen for every targeted bucket lies within
\* [w_min, w_max], also when w_min > 0 and when a row of the bucket has no
\* truth; stated here for the buckets that have a row with both a truth and
\* a best baseline, the rows the search is specified over (a bucket without
\* any row with a best baseline is given 0 by the sub.empty branch).
C6_WeightWithinRange ==
    \A name \in DOMAIN best_w :
        Usable(name) # <<>> => InRange(best_w[name])

\* C7: with w_min = 0 the blended RMSE of a targeted bucket at its chosen
\* weight, over the bucket's usable rows, is <= the RMSE at weight 0.
C7_NoWorseThanModel ==
    \A name \in DOMAIN best_w :
        args.w_min = 0 =>
            Rmse(Usable(name), best_w[name], WDen(args))
                <= Rmse(Usable(name), 0, WDen(args))

\* with w_min = 0 a bucket of two usable rows was given a weight above 0
\* that makes its RMSE strictly smaller than the model's
C7_Witness ==
    /\ args.w_min = 0
    /\ \E name \in DOMAIN best_w :
          /\ Len(Usable(name)) >= 2
          /\ best_w[name] > 0
          /\ Rmse(Usable(name), best_w[name], WDen(args))
                < Rmse(Usable(name), 0, WDen(args))

\* rows eligible for training a recursive task: TimeKey <= cutoff, target
\* present
EligibleRec(c, kc) ==
    Cardinality({i \in DOMAIN feat[c] :
                    /\ feat[c][i].k <= kc
                    /\ NotNa(feat[c][i].target_anom_t_plus_1)})

\* rows eligible for training a direct task: TimeKey <= cutoff - h, anomaly
\* at TimeKey + h present
EligibleDir(c, kc, hh) ==
    Cardinality({i \in DOMAIN feat[c] :
                    /\ feat[c][i].k <= kc - hh
                    /\ Has(store, c, feat[c][i].k + hh)})

\* C8: a task whose eligible row count is below the floor fits no model and
\* emits no record, and the run goes on to its end.
C8_MinSizeGate ==
    /\ \A i \in DOMAIN rows :
          EligibleRec(rows[i].country, parse_ym(rows[i].cutoff_ym))
              >= cfg.min_train_rows
    /\ \A i \in DOMAIN mid :
          EligibleDir(mid[i].country, parse_ym(mid[i].cutoff_ym),
                      mid[i].horizon) >= cfg.min_train_rows
    /\ model.fitted =>
          IF model.mode = "ridge"
          THEN EligibleRec(model.country, model.k_cut) >= cfg.min_train_rows
          ELSE EligibleDir(model.country, model.k_cut, model.horizon)
                   >= cfg.min_train_rows
    /\ phase = "done" =>
          \A c \in Countries, i \in DOMAIN cuts :
              /\ EligibleRec(c, parse_ym(cuts[i])) < cfg.min_train_rows =>
                    [kind |-> "skip", country |-> c,
                     k_cut |-> parse_ym(cuts[i]), horizon |-> 0] \in log
              /\ \A hh \in Band(cfg) :
                    EligibleDir(c, parse_ym(cuts[i]), hh) < cfg.min_train_rows
                        => [kind |-> "skip", country |-> c,
                            k_cut |-> parse_ym(cuts[i]), horizon |-> hh]
                               \in log

\* the job is done; a recursive task and a direct task were skipped for
\* being below the floor, and tasks after each of them emitted records
C8_Witness ==
    /\ phase = "done"
    /\ \E e \in log :
          /\ e.kind = "skip" /\ e.horizon = 0
          /\ EligibleRec(e.country, e.k_cut) < cfg.min_train_rows
          /\ EligibleRec(e.country, e.k_cut) > 0
          /\ TaskRows(rows, e.country, e.k_cut) = {}
          /\ \E i \in DOMAIN rows : parse_ym(rows[i].cutoff_ym) > e.k_cut
    /\ \E e \in log :
          /\ e.kind = "skip" /\ e.horizon > 0
          /\ EligibleDir(e.country, e.k_cut, e.horizon) < cfg.min_train_rows
          /\ \E i \in DOMAIN mid : parse_ym(mid[i].cutoff_ym) > e.k_cut

\* C9: anomaly_lag12 of the feature row at TimeKey k is the store's anomaly
\* at TimeKey k - 12 when the store holds it, and missing otherwise.
C9_Lag12ByTimeKey ==
    \A c \in Countries : \A i \in DOMAIN feat[c] :
        LET r == feat[c][i]
        IN r.anom_lag12 = IF Has(store, c, r.k - Lag12)
                          THEN store[c][r.k - Lag12].anomaly_c ELSE NaN

\* C10: every lag and rolling field of the feature row at TimeKey k is
\* computed from anomalies at TimeKeys strictly below k only.
C10_FeaturesFromPastOnly ==
    \A c \in Countries : \A i \in DOMAIN feat[c] :
        LET r == feat[c][i]
        IN \A f \in DOMAIN r.src :
              /\ \A k \in r.src[f] : k < r.k /\ Has(store, c, k)
              /\ NotNa(r[f]) <=> r.src[f] # {}

\* a feature row of a series with a missing month whose twelve-month mean
\* was computed from twelve earlier months
C10_Witness ==
    \E c \in Countries : \E i \in DOMAIN feat[c] :
        /\ Cardinality(feat[c][i].src["roll_mean_12"]) = Roll12
        /\ Cardinality(feat[c][i].src["roll_mean_3"]) = Roll3
        /\ \E k \in MinOf(DOMAIN store[c])..feat[c][i].k : ~Has(store, c, k)

\* C11: the training target of the feature row at TimeKey k is the store's
\* anomaly at TimeKey k + 1, also when months are missing, and no row with a
\* missing target is in the feature table.
C11_TargetByTimeKey ==
    \A c \in DOMAIN feat : \A i \in DOMAIN feat[c] :
        LET r == feat[c][i]
        IN /\ NotNa(r.target_anom_t_plus_1)
           /\ Has(store, c, r.k + 1)
           /\ r.target_anom_t_plus_1 = store[c][r.k + 1].anomaly_c

\* the rows of a table are in ascending order of the key
\* (country, year, month, cutoff, horizon)
IsSorted(t) ==
    \A i \in 1..(Len(t) - 1) : ~LexLess(KeyOf(t[i + 1]), KeyOf(t[i]))

\* C12: the table the recursive forecaster writes and the table the direct
\* merge writes are sorted by (country, year, month, cutoff, horizon).
C12_OutputSorted ==
    /\ phase \in {"dir_task", "merge", "done"} => IsSorted(rows)
    /\ phase = "done" => IsSorted(merged)

\* the model rows with the key of row r, and the baselines r's key has
ModelRowsOf(r) == {i \in DOMAIN tabs.m : SameKey(tabs.m[i], r)}
HasBase(t, r) == \E i \in DOMAIN t : SameKey(t[i], r)

\* C13: every row of the model forecast table is in the blended output,
\* whether both, one or neither baseline table has a row with its key.
C13_ModelRowsPreserved ==
    phase = "blend_done" =>
        /\ Len(out) >= Len(tabs.m)
        /\ \A i \in DOMAIN tabs.m : \E j \in DOMAIN out :
              /\ SameKey(out[j], tabs.m[i])
              /\ out[j].model = tabs.m[i].model
              /\ out[j].pred_anom = tabs.m[i].pred_anom
              /\ out[j].truth_c = tabs.m[i].truth_c

\* the blend was written for a table with a row that has both baselines, a
\* row that has one and a row that has none
C13_Witness ==
    /\ phase = "blend_done"
    /\ \E i \in DOMAIN tabs.m :
          HasBase(tabs.c, tabs.m[i]) /\ HasBase(tabs.l, tabs.m[i])
    /\ \E i \in DOMAIN tabs.m :
          HasBase(tabs.c, tabs.m[i]) /\ ~HasBase(tabs.l, tabs.m[i])
    /\ \E i \in DOMAIN tabs.m :
          ~HasBase(tabs.c, tabs.m[i]) /\ ~HasBase(tabs.l, tabs.m[i])

\* a bucket has no usable row: no row with a truth and a best baseline
NoUsable(name) == Usable(name) = <<>>

Targeted(name) == name \in Range(args.buckets_to_opt)

\* C14: the predicted temperature of a row is unchanged when the row has no
\* best baseline, when its bucket is not targeted (horizons in no bucket
\* included) and when its bucket has no usable row.
C14_UnblendedRows ==
    phase = "blend_done" =>
        /\ Len(out) = Len(df)
        /\ \A j \in DOMAIN df :
              (\/ IsNaN(df[j].pred_c_base)
               \/ ~Targeted(df[j].bucket)
               \/ NoUsable(df[j].bucket))
                  => out[j].pred_c = df[j].pred_c

\* with w_min > 0 the blend was written for a table with a row that has a
\* baseline and a horizon in no bucket, a row without a baseline in a
\* targeted bucket that got a weight above 0, and a row whose prediction
\* the blend changed
C14_Witness ==
    /\ phase = "blend_done" /\ args.w_min > 0
    /\ \E j \in DOMAIN df :
          df[j].bucket = "h_na" /\ NotNa(df[j].pred_c_base)
    /\ \E j \in DOMAIN df :
          /\ IsNaN(df[j].pred_c_base) /\ Targeted(df[j].bucket)
          /\ df[j].bucket \in DOMAIN best_w /\ best_w[df[j].bucket] > 0
    /\ \E j \in DOMAIN df : out[j].pred_c # df[j].pred_c

\* C15: the blended output has exactly the columns of the model forecast
\* table, and a row differs from its model row in pred_c at most.
C15_SchemaUnchanged ==
    phase = "blend_done" =>
        \A j \in DOMAIN out :
            /\ DOMAIN out[j] = DOMAIN tabs.m[1]
            /\ \E i \in ModelRowsOf(out[j]) :
                  \A f \in DOMAIN tabs.m[i] \ {"pred_c"} :
                      out[j][f] = tabs.m[i][f]

\* the blend was written, the joined frame had more columns than the model
\* table, and a row's pred_c differs from the model's
C15_Witness ==
    /\ phase = "blend_done"
    /\ DOMAIN df[1] # DOMAIN tabs.m[1]
    /\ \E j \in DOMAIN out : \E i \in ModelRowsOf(out[j]) :
          out[j].pred_c # tabs.m[i].pred_c

\* the error of weight w on the usable rows of a bucket
UsableRmse(name, w) == Rmse(Usable(name), w, WDen(args))

\* C18: for a targeted bucket with usable rows the chosen weight is a point
\* of the grid over [w_min, w_max] whose RMSE on the usable rows is minimal
\* over the grid, and the smallest such point.
C18_FirstGridMinimum ==
    \A name \in DOMAIN best_w :
        Usable(name) # <<>> =>
            LET grid == linspace(args)
                w == best_w[name]
            IN /\ \E i \in DOMAIN grid : grid[i] = w
               /\ \A i \in DOMAIN grid :
                     /\ UsableRmse(name, w) <= UsableRmse(name, grid[i])
                     /\ UsableRmse(name, w) = UsableRmse(name, grid[i])
                           => w <= grid[i]

\* C19: the weight chosen for a bucket is the weight the search chooses from
\* the bucket's rows with a truth and a best baseline alone: rows without a
\* truth or without a best baseline do not change it.
C19_SearchOnUsableRowsOnly ==
    \A name \in DOMAIN best_w :
        best_w[name] =
            IF Usable(name) = <<>> THEN 0
            ELSE GridSearch(Usable(name), linspace(args), WDen(args),
                            <<0, Inf>>)[1]

\* the distance of a baseline value from the truth of a row
Dist(v, y) == IF v >= y THEN v - y ELSE y - v

\* C20: with a truth and both baselines the best baseline of a row is the
\* baseline nearer to the truth, the climatology on an exact tie; without a
\* truth or with one baseline only it is the climatology if present, else
\* the lag-12 baseline, else missing.
C20_BestBaseline ==
    \A j \in DOMAIN df :
        LET r == df[j]
            both == NotNa(r.pred_c_clim) /\ NotNa(r.pred_c_lag12)
        IN /\ (both /\ NotNa(r.truth_c)) =>
                 /\ Dist(r.pred_c_clim, r.truth_c)
                        <= Dist(r.pred_c_lag12, r.truth_c)
                      => r.pred_c_base = r.pred_c_clim
                 /\ Dist(r.pred_c_clim, r.truth_c)
                        > Dist(r.pred_c_lag12, r.truth_c)
                      => r.pred_c_base = r.pred_c_lag12
           /\ (~both \/ IsNaN(r.truth_c)) =>
                 /\ NotNa(r.pred_c_clim) => r.pred_c_base = r.pred_c_clim
                 /\ (IsNaN(r.pred_c_clim) /\ NotNa(r.pred_c_lag12))
                      => r.pred_c_base = r.pred_c_lag12
                 /\ (IsNaN(r.pred_c_clim) /\ IsNaN(r.pred_c_lag12))
                      => IsNaN(r.pred_c_base)

\* the joined frame holds a row with both baselines at the same distance
\* from its truth, a row whose lag-12 baseline is nearer, and a row without
\* truth that has the lag-12 baseline only
C20_Witness ==
    /\ \E j \in DOMAIN df :
          /\ NotNa(df[j].truth_c) /\ NotNa(df[j].pred_c_clim)
          /\ NotNa(df[j].pred_c_lag12)
          /\ df[j].pred_c_clim # df[j].pred_c_lag12
          /\ Dist(df[j].pred_c_clim, df[j].truth_c)
                = Dist(df[j].pred_c_lag12, df[j].truth_c)
          /\ df[j].pred_c_base = df[j].pred_c_clim
    /\ \E j \in DOMAIN df :
          /\ NotNa(df[j].truth_c) /\ NotNa(df[j].pred_c_clim)
          /\ Dist(df[j].pred_c_clim, df[j].truth_c)
                > Dist(df[j].pred_c_lag12, df[j].truth_c)
          /\ df[j].pred_c_base = df[j].pred_c_lag12
    /\ \E j \in DOMAIN df :
          /\ IsNaN(df[j].truth_c) /\ IsNaN(df[j].pred_c_clim)
          /\ df[j].pred_c_base = df[j].pred_c_lag12
          /\ NotNa(df[j].pred_c_lag12)

\* the records a recursive task emits when it is run on its own, from the
\* anomalies table, the features table and the options alone
RECURSIVE SoloSteps(_, _, _, _, _, _)
SoloSteps(c, cym, fit, cols, hs, hh) ==
    LET k_tgt == parse_ym(cym) + hh
        Step(m, buf) ==
            LET x == StepFeatures(buf, key_to_ym(k_tgt)[2], cols)
            IN IF RowHasNaN(x) THEN <<>>
               ELSE LET pred_anom == Clip(RidgePredict(m, x), cfg.clip_anom)
                        w == blend_weight(hh, cfg.blend[1], cfg.blend[2],
                                          cfg.blend[3])
                    IN <<[country |-> c, year |-> key_to_ym(k_tgt)[1],
                          month |-> key_to_ym(k_tgt)[2], cutoff_ym |-> cym,
                          horizon |-> hh, pred_anom |-> pred_anom,
                          pred_c |-> store[c][k_tgt].clim_temp_c
                                + (((1000 - w) * pred_anom) \div 1000),
                          truth_c |-> store[c][k_tgt].temp_c,
                          model |-> "ridge"]>>
                       \o SoloSteps(c, cym, m, cols,
                                    PushHist(buf, cfg.damping, pred_anom),
                                    hh + 1)
    IN IF hh > cfg.horizons_max \/ ~Has(store, c, k_tgt) THEN <<>>
       ELSE CHOOSE recs \in {Step(m, buf) : m \in {fit}, buf \in {hs}} : TRUE

SoloRec(c, cym) ==
    LET t == RecTask(feat, FeatColumns(cfg), c, parse_ym(cym),
                     cfg.min_train_rows)
    IN IF t.go
       THEN SoloSteps(c, cym, fit_ridge_timeaware(t.X, t.y, cfg.alphas),
                      t.cols, SeedHist(store, c, parse_ym(cym)), 1)
       ELSE <<>>

\* the records a direct task emits when it is run on its own
SoloDir(c, cym, hh) ==
    LET t == DirTask(feat, store, FeatColumns(cfg), c, parse_ym(cym), hh,
                     cfg.min_train_rows)
        k_tgt == parse_ym(cym) + hh
    IN IF t.emit
       THEN LET x == [col \in Range(t.cols) |-> t.xrow[1][col]]
                pred_anom == RidgePredict(
                                 fit_ridge_direct(t.X, t.y, cfg.alphas), x)
            IN <<[country |-> c, year |-> key_to_ym(k_tgt)[1],
                  month |-> key_to_ym(k_tgt)[2], cutoff_ym |-> cym,
                  horizon |-> hh, pred_anom |-> pred_anom,
                  pred_c |-> pred_anom + store[c][k_tgt].clim_temp_c,
                  truth_c |-> store[c][k_tgt].temp_c,
                  model |-> "ridge_direct"]>>
       ELSE <<>>

\* the records of a table that a (country, cutoff) task emitted, in order
RowsOfTask(t, c, cym) ==
    LET P(r) == r.country = c /\ r.cutoff_ym = cym IN SelectSeq(t, P)

RowsOfDirTask(t, c, cym, hh) ==
    LET P(r) == r.country = c /\ r.cutoff_ym = cym /\ r.horizon = hh
    IN SelectSeq(t, P)

\* C16: the records of a recursive (country, cutoff) task and of a direct
\* (country, cutoff, horizon) task are the records the task emits on its
\* own, whatever the other tasks of the run are, in whatever order the
\* cutoffs come, and whether other tasks are skipped or halted.
C16_TasksIndependent ==
    /\ phase = "rec_write" =>
          \A c \in Countries : \A i \in DOMAIN cuts :
              RowsOfTask(rows, c, cuts[i]) = SoloRec(c, cuts[i])
    /\ phase = "merge" =>
          \A c \in Countries : \A i \in DOMAIN cuts : \A hh \in Band(cfg) :
              RowsOfDirTask(mid, c, cuts[i], hh) = SoloDir(c, cuts[i], hh)

\* the place of a cutoff in the cutoffs file, and whether the task of a
\* record ran after the task of a logged event
CutIdx(k) == CHOOSE i \in DOMAIN cuts : parse_ym(cuts[i]) = k

RanAfter(r, e) ==
    LET a == CutIdx(parse_ym(r.cutoff_ym))
        b == CutIdx(e.k_cut)
    IN a > b \/ (a = b /\ CountryIdx(r.country) > CountryIdx(e.country))

\* the recursive script ended with the later cutoff taken first; a task was
\* skipped, the horizon loop of another was halted, and tasks that ran
\* after them emitted records
C16_Witness ==
    /\ phase = "rec_write"
    /\ parse_ym(cuts[1]) > parse_ym(cuts[Len(cuts)])
    /\ \E e \in log : \E i \in DOMAIN rows :
          e.kind = "skip" /\ e.horizon = 0 /\ RanAfter(rows[i], e)
    /\ \E e \in log : \E i \in DOMAIN rows :
          e.kind \in {"miss", "nan"} /\ RanAfter(rows[i], e)

\* the rows of a written file after the rows the file had
Appended(name) ==
    SubSeq(out_files[name], Len(country_files[name]) + 1,
           Len(out_files[name]))

\* C17: a written country file is the file as read followed by at most 60
\* rows for the consecutive TimeKeys last+1, last+2, ..., each with the
\* prediction of a forecast of that country at the latest cutoff.
C17_AppendNextMonths ==
    \A name \in DOMAIN out_files :
        LET d == country_files[name]
            o == out_files[name]
            add == Appended(name)
        IN /\ Len(o) >= Len(d) /\ SubSeq(o, 1, Len(d)) = d
           /\ Len(add) <= HeadCap
           /\ \A j \in DOMAIN add :
                 /\ ym_key(add[j].year, add[j].month) = last_k(d) + j
                 /\ \E i \in DOMAIN forecasts :
                       /\ forecasts[i].cutoff_ym = latest_cutoff(forecasts)
                       /\ forecasts[i].country = add[j].country
                       /\ forecasts[i].year = add[j].year
                       /\ forecasts[i].month = add[j].month
                       /\ forecasts[i].pred_c = add[j].temp_c

AppendedHist == TailN(hist, Len(xs))

\* C22: with a clip bound B > 0 every predicted anomaly of the recursive
\* forecaster has |predicted anomaly| <= B, and every value appended to the
\* history buffer has absolute value <= B; with B = 0 the record carries the
\* model's prediction as it is.
C22_ClipBound ==
    /\ cfg.clip_anom > 0 =>
          /\ \A i \in DOMAIN rows : Abs(rows[i].pred_anom) <= cfg.clip_anom
          /\ \A j \in DOMAIN AppendedHist :
                Abs(AppendedHist[j]) <= cfg.clip_anom
    /\ (cfg.clip_anom = 0 /\ model.fitted /\ model.mode = "ridge") =>
          \A i \in DOMAIN xs : PredOf(i) = RidgePredict(model.fit, xs[i])

\* with a bound B > 0 the model's prediction of a horizon was beyond the
\* bound; the record carries B or -B and the buffer took the damped value
C22_Witness ==
    /\ cfg.clip_anom > 0 /\ model.fitted /\ model.mode = "ridge"
    /\ Len(hist) = HistSeed + Len(xs)
    /\ \E i \in DOMAIN xs :
          /\ Abs(RidgePredict(model.fit, xs[i])) > cfg.clip_anom
          /\ Abs(PredOf(i)) = cfg.clip_anom
          /\ AppendedHist[i] = Damped(cfg.damping, PredOf(i))

\* the seed of the buffer as the claim states it: for each of the HistSeed
\* consecutive TimeKeys ending at the cutoff the store's anomaly, or for a
\* missing month the anomaly of the nearest earlier month of the window the
\* store has, or else of the nearest later one
SeedOf(c, k_cut) ==
    LET win == (k_cut - HistSeed + 1)..k_cut
        have == {k \in win : Has(store, c, k)}
        from(kk) ==
            IF kk \in have THEN kk
            ELSE IF \E k \in have : k < kk
                 THEN MaxOf({k \in have : k < kk})
                 ELSE IF \E k \in have : k > kk
                      THEN MinOf({k \in have : k > kk})
                      ELSE NaN
    IN [i \in 1..HistSeed |->
           LET kk == k_cut - HistSeed + i
           IN IF from(kk) = NaN THEN NaN
              ELSE store[c][from(kk)].anomaly_c]

\* the predictions of the horizon loop of the model's task, damped, in the
\* order of the horizons
FedBack ==
    [i \in 1..Len(xs) |-> Damped(cfg.damping, PredOf(i))]

\* C23: the history buffer of a recursive (country, cutoff) task is seeded
\* with the store's anomalies at the consecutive TimeKeys ending at the
\* cutoff (at most HistCap of them, the last one the cutoff's), a missing
\* month filled with the nearest earlier value there is and, if none, the
\* nearest later one; at every horizon step the buffer holds at most
\* HistCap values in chronological order, the newest last.
C23_HistoryBuffer ==
    (model.fitted /\ model.mode = "ridge") =>
        LET seed == SeedOf(model.country, model.k_cut)
        IN /\ Len(seed) <= HistCap
           /\ Has(store, model.country, model.k_cut) =>
                 seed[Len(seed)] = store[model.country][model.k_cut].anomaly_c
           /\ Len(hist) <= HistCap
           /\ hist = TailN(seed \o FedBack, HistCap)

\* the buffer was seeded with a month filled from the month before it and
\* with months filled from the first month the store has, and the horizon
\* loop has pushed the seed's first values out of the full buffer
C23_Witness ==
    /\ model.fitted /\ model.mode = "ridge"
    /\ Len(hist) = HistCap /\ Len(xs) > HistCap - HistSeed
    /\ hist[1] = SeedOf(model.country, model.k_cut)[Len(xs) + HistSeed
                                                     - HistCap + 1]
    /\ Last(hist) = Damped(cfg.damping, PredOf(Len(xs)))
    /\ \E kk \in (model.k_cut - HistSeed + 2)..model.k_cut :
          /\ ~Has(store, model.country, kk)
          /\ Has(store, model.country, kk - 1)
    /\ ~Has(store, model.country, model.k_cut - HistSeed + 1)

\* the sample size below which no search is run, and the strength (in
\* tenths) the recursive trainer then fits with
CvFloor == 60
DefaultAlpha == 10

\* C24 (the part below the threshold): a model fitted on fewer than CvFloor
\* rows is fitted without a search, with one fixed default strength, the
\* same in recursive and in direct mode.
C24_DefaultStrength ==
    (model.fitted /\ model.fit.n < CvFloor) =>
        model.fit.alpha = DefaultAlpha

\* the stored feature records of a country at a TimeKey
FeatAt(c, k) == {i \in DOMAIN feat[c] : feat[c][i].k = k}

\* the records of the direct script for a (country, cutoff, horizon)
MidOf(c, kc, hh) ==
    {i \in DOMAIN mid : /\ mid[i].country = c
                        /\ parse_ym(mid[i].cutoff_ym) = kc
                        /\ mid[i].horizon = hh}

\* a direct task can emit: the eligibility gate holds, the target month is
\* in the store, and the feature record at the cutoff is stored with every
\* usable column present
DirCanEmit(c, kc, hh) ==
    LET t == DirTask(feat, store, FeatColumns(cfg), c, kc, hh,
                     cfg.min_train_rows)
    IN /\ EligibleDir(c, kc, hh) >= cfg.min_train_rows
       /\ Has(store, c, kc + hh)
       /\ \E i \in FeatAt(c, kc) :
             \A col \in Range(t.cols) : NotNa(feat[c][i][col])

\* C25: in direct mode every horizon of the band [h_start, min(h_end,
\* horizons_max)] is attempted for a (country, cutoff) on its own: a record
\* is predicted from the stored feature record at TimeKey = cutoff, and it
\* is emitted exactly when the eligibility gate holds, the target month
\* cutoff + h is in the store and that feature record is stored and
\* complete, whatever became of the other horizons of the band.
C25_DirectPerHorizon ==
    /\ \A i \in DOMAIN mid :
          LET r == mid[i]
              kc == parse_ym(r.cutoff_ym)
              t == DirTask(feat, store, FeatColumns(cfg), r.country, kc,
                           r.horizon, cfg.min_train_rows)
          IN /\ r.horizon \in Band(cfg)
             /\ DirCanEmit(r.country, kc, r.horizon)
             /\ \E j \in FeatAt(r.country, kc) :
                   r.pred_anom =
                       RidgePredict(fit_ridge_direct(t.X, t.y, cfg.alphas),
                           [col \in Range(t.cols) |->
                               feat[r.country][j][col]])
    /\ phase \in {"merge", "done"} =>
          \A c \in Countries, i \in DOMAIN cuts, hh \in Band(cfg) :
              Cardinality(MidOf(c, parse_ym(cuts[i]), hh)) =
                  IF DirCanEmit(c, parse_ym(cuts[i]), hh) THEN 1 ELSE 0

\* the direct script has ended; for one (country, cutoff) the band's first
\* horizon passed the gate and has no record because its target month is
\* not in the store, and the next horizon has a record; a task of another
\* country passed the gate with its target month in the store and has no
\* record because no feature record is stored at the cutoff
C25_Witness ==
    /\ phase \in {"merge", "done"}
    /\ \E c \in Countries, i \in DOMAIN cuts :
          LET kc == parse_ym(cuts[i])
          IN /\ EligibleDir(c, kc, cfg.h_start) >= cfg.min_train_rows
             /\ ~Has(store, c, kc + cfg.h_start)
             /\ MidOf(c, kc, cfg.h_start) = {}
             /\ MidOf(c, kc, cfg.h_start + 1) # {}
    /\ \E c \in Countries, i \in DOMAIN cuts, hh \in Band(cfg) :
          LET kc == parse_ym(cuts[i])
          IN /\ EligibleDir(c, kc, hh) >= cfg.min_train_rows
             /\ Has(store, c, kc + hh)
             /\ FeatAt(c, kc) = {}
             /\ MidOf(c, kc, hh) = {}

\* the absolute errors of the rows of a table for a country and a bucket
\* whose truth is known
KnownErrs(t, c, b) ==
    LET P(r) == /\ r.country = c /\ bucket_name(r.horizon, Buckets) = b
                /\ NotNa(r.truth_c) /\ NotNa(r.pred_c)
        g == SelectSeq(t, P)
    IN [i \in DOMAIN g |-> Abs(g[i].pred_c - g[i].truth_c)]

InGroup(t, c, b) ==
    {i \in DOMAIN t : /\ t[i].country = c
                      /\ bucket_name(t[i].horizon, Buckets) = b}

\* MAE and RMSE of a country in a bucket over its rows of known truth
CountryMAE(t, c, b) ==
    LET e == KnownErrs(t, c, b)
    IN IF e = <<>> THEN NaN ELSE SumSeq(e) \div Len(e)

CountryRMSE(t, c, b) ==
    LET e == KnownErrs(t, c, b)
    IN IF e = <<>> THEN NaN
       ELSE ISqrt(SumSeq([i \in DOMAIN e |-> e[i] * e[i]]) \div Len(e))

\* the mean of a statistic over the countries that have it, each counted
\* once
OverCountries(S(_), b) ==
    LET P(c) == NotNa(S(c))
        cs == SelectSeq(CountryOrder, P)
    IN IF cs = <<>> THEN NaN
       ELSE SumSeq([i \in DOMAIN cs |-> S(cs[i])]) \div Len(cs)

\* the global rows of a table are the unweighted means of its countries
GlobalIsMean(glob, t, who) ==
    \A bi2 \in DOMAIN BucketNames :
        LET b == BucketNames[bi2]
            MAEof(c) == CountryMAE(t, c, b)
            RMSEof(c) == CountryRMSE(t, c, b)
            g == {i \in DOMAIN glob : glob[i].who = who /\ glob[i].bucket = b}
        IN IF \A c \in Countries : InGroup(t, c, b) = {} THEN g = {}
           ELSE /\ Cardinality(g) = 1
                /\ \A i \in g :
                      /\ glob[i].MAE = OverCountries(MAEof, b)
                      /\ glob[i].RMSE = OverCountries(RMSEof, b)

\* C26: the global MAE and RMSE of a bucket are the unweighted means of the
\* per-country MAE and RMSE of the bucket, every country with rows in the
\* bucket counting once whatever its row count, and the per-country
\* statistics are those of the rows of known truth alone.
C26_GlobalUnweighted ==
    /\ phase \in {"met_base", "met_decide", "met_done"} =>
          /\ GlobalIsMean(global_m, mtabs.m, "model_ridge")
          /\ \A i \in DOMAIN by_country :
                LET r == by_country[i]
                IN /\ r.MAE = CountryMAE(mtabs.m, r.country, r.bucket)
                   /\ r.RMSE = CountryRMSE(mtabs.m, r.country, r.bucket)
                   /\ r.n = Len(KnownErrs(mtabs.m, r.country, r.bucket))
    /\ phase \in {"met_decide", "met_done"} =>
          /\ GlobalIsMean(b_global, mtabs.b1, Baselines[1])
          /\ GlobalIsMean(b_global, mtabs.b2, Baselines[2])

\* the statistics are written; in the first bucket country A has more rows
\* than country B and one of them without truth, the two countries differ
\* in MAE, and the global MAE is not the mean over the bucket's rows
C26_Witness ==
    /\ phase = "met_done"
    /\ LET b == BucketNames[1]
           t == mtabs.m
           all == KnownErrs(t, "A", b) \o KnownErrs(t, "B", b)
       IN /\ Cardinality(InGroup(t, "A", b)) > Cardinality(InGroup(t, "B", b))
          /\ Len(KnownErrs(t, "A", b)) < Cardinality(InGroup(t, "A", b))
          /\ Len(KnownErrs(t, "A", b)) > Len(KnownErrs(t, "B", b))
          /\ CountryMAE(t, "A", b) # CountryMAE(t, "B", b)
          /\ \E i \in DOMAIN global_m :
                /\ global_m[i].bucket = b
                /\ global_m[i].MAE # SumSeq(all) \div Len(all)

\* the RMSE of each baseline of a country in a bucket, the ones there are
BaseRMSEs(c, b) ==
    {CountryRMSE(mtabs.b1, c, b), CountryRMSE(mtabs.b2, c, b)} \ {NaN}

\* a (country, bucket) with rows of the model and rows of a baseline
HasBoth(c, b) ==
    /\ InGroup(mtabs.m, c, b) # {}
    /\ InGroup(mtabs.b1, c, b) # {} \/ InGroup(mtabs.b2, c, b) # {}

\* the model's RMSE is below the best baseline's
ModelWins(c, b) ==
    /\ NotNa(CountryRMSE(mtabs.m, c, b))
    /\ BaseRMSEs(c, b) # {}
    /\ CountryRMSE(mtabs.m, c, b) < MinOf(BaseRMSEs(c, b))

\* C27: for every (country, bucket) with statistics of the model and of a
\* baseline, the best baseline is the one of the smallest RMSE, improvement
\* is (RMSE_best - RMSE_model) / RMSE_best, and the win share of a bucket is
\* the number of its countries with RMSE_model < RMSE_best over the number
\* of its countries that have statistics of both.
C27_BestBaselineAndWinShare ==
    phase = "met_done" =>
        /\ \A c \in Countries, bi2 \in DOMAIN BucketNames :
              LET b == BucketNames[bi2]
                  g == {i \in DOMAIN cmp : cmp[i].country = c
                                           /\ cmp[i].bucket = b}
              IN IF ~HasBoth(c, b) THEN g = {}
                 ELSE /\ Cardinality(g) = 1
                      /\ \A i \in g :
                            LET r == cmp[i]
                                t == IF r.best_baseline = Baselines[1]
                                     THEN mtabs.b1 ELSE mtabs.b2
                            IN /\ r.RMSE_model = CountryRMSE(mtabs.m, c, b)
                               /\ r.RMSE_best = CountryRMSE(t, c, b)
                               /\ r.RMSE_best =
                                     IF BaseRMSEs(c, b) = {} THEN NaN
                                     ELSE MinOf(BaseRMSEs(c, b))
                               /\ (NotNa(r.RMSE_model) /\ NotNa(r.RMSE_best)
                                      /\ r.RMSE_best > 0) =>
                                     r.improvement_pct =
                                        ((r.RMSE_best - r.RMSE_model)
                                            * PctDen) \div r.RMSE_best
        /\ \A bi2 \in DOMAIN BucketNames :
              LET b == BucketNames[bi2]
                  both == {c \in Countries : HasBoth(c, b)}
                  won == {c \in both : ModelWins(c, b)}
                  g == {i \in DOMAIN wins : wins[i].bucket = b}
              IN IF both = {} THEN g = {}
                 ELSE /\ Cardinality(g) = 1
                      /\ \A i \in g :
                            wins[i].share = (Cardinality(won) * PctDen)
                                                \div Cardinality(both)

\* the reports are written; for one (country, bucket) the lag-12 baseline is
\* the best one with an RMSE below climatology's, in one bucket the model
\* wins in one country of two, and one (country, bucket) of the model has no
\* baseline rows and is not compared
C27_Witness ==
    /\ phase = "met_done"
    /\ \E i \in DOMAIN cmp :
          /\ cmp[i].best_baseline = Baselines[2]
          /\ CountryRMSE(mtabs.b1, cmp[i].country, cmp[i].bucket)
                > cmp[i].RMSE_best
          /\ cmp[i].RMSE_best > 0
    /\ \E i \in DOMAIN wins :
          /\ wins[i].share = PctDen \div 2
          /\ Cardinality({c \in Countries : HasBoth(c, wins[i].bucket)}) = 2
    /\ \E c \in Countries, bi2 \in DOMAIN BucketNames :
          /\ InGroup(mtabs.m, c, BucketNames[bi2]) # {}
          /\ ~HasBoth(c, BucketNames[bi2])

\* at forecast time, for horizon 1 of a task with cutoff k_cut: the TimeKey
\* of the anomaly in anom_lag1 (hist[-1], the last month the buffer was
\* seeded with) and the TimeKey whose month the calendar encoding takes
\* (m_tgt, the month of the target)
ForecastLag1Key(k_cut) == k_cut
ForecastCalendarKey(k_cut) == k_cut + 1

\* C28: in recursive mode the offset between the predicted month and the
\* inputs is the same at fit time and at forecast time: for a training row
\* the distance from the target's TimeKey to the TimeKey of the anomaly in
\* anom_lag1, and to the month of the calendar encoding, is the distance
\* the feature vector of horizon 1 has to its target TimeKey cutoff + 1.
C28_TrainPredictAligned ==
    (model.fitted /\ model.mode = "ridge") =>
        \A i \in DOMAIN feat[model.country] :
            LET r == feat[model.country][i]
                k_tgt == model.k_cut + 1
            IN r.k \in model.keys =>
                  \A t \in r.target_src :
                      /\ \A s \in r.src["anom_lag1"] :
                            t - s = k_tgt - ForecastLag1Key(model.k_cut)
                      /\ t - r.k = k_tgt - ForecastCalendarKey(model.k_cut)

\* the years the round trip of the codec is taken over
CodecYears == ((0 - 2)..2) \cup (2017..2022)

\* a forecast record whose target is the month cutoff + horizon
KeyConsistent(r) ==
    /\ ym_to_key(r.year, r.month) = parse_ym(r.cutoff_ym) + r.horizon
    /\ r.month \in 1..12
    /\ r.horizon >= 1 /\ r.horizon <= cfg.horizons_max

\* C29: every record of the recursive and of the direct forecaster (with a
\* band that starts at a horizon >= 1) has ym_to_key(target year, target
\* month) = cutoff TimeKey + horizon, a target month in 1..12, also across
\* a year boundary, and a horizon in 1..horizons_max; and key_to_ym undoes
\* ym_to_key for every year and every month in 1..12.
C29_KeyConsistent ==
    /\ \A i \in DOMAIN rows : KeyConsistent(rows[i])
    /\ \A i \in DOMAIN mid : KeyConsistent(mid[i])
    /\ \A y \in CodecYears, m \in 1..12 :
          key_to_ym(ym_to_key(y, m)) = <<y, m>>

\* a recursive and a direct record of a cutoff in December have targets in
\* the year after, in the month whose number is the horizon
C29_Witness ==
    /\ \E i \in DOMAIN rows :
          /\ rows[i].cutoff_ym[2] = 12
          /\ rows[i].year = rows[i].cutoff_ym[1] + 1
          /\ rows[i].month = rows[i].horizon
    /\ \E i \in DOMAIN mid :
          /\ mid[i].cutoff_ym[2] = 12
          /\ mid[i].year = mid[i].cutoff_ym[1] + 1
          /\ mid[i].month = mid[i].horizon

\* a forecast record whose target month is in the store, with the raw
\* temperature stored there as its truth
TruthFromStore(r) ==
    LET k == ym_to_key(r.year, r.month)
    IN /\ Has(store, r.country, k)
       /\ r.truth_c = store[r.country][k].temp_c

\* C30: every record of the recursive and of the direct forecaster targets
\* a (country, TimeKey) the store holds and carries the raw temperature
\* stored there as its truth; no record is emitted for a month that is not
\* in the store.
C30_TruthFromStore ==
    /\ \A i \in DOMAIN rows : TruthFromStore(rows[i])
    /\ \A i \in DOMAIN mid : TruthFromStore(mid[i])
    /\ \A i \in DOMAIN merged : TruthFromStore(merged[i])

\* the job is done; a horizon loop was halted at a month the store does not
\* hold after it emitted records, a direct task passed the gate and found
\* its target month missing, and no table has a record of either month
C30_Witness ==
    /\ phase = "done"
    /\ \E e \in log :
          /\ e.kind = "miss"
          /\ TaskRows(rows, e.country, e.k_cut) # {}
          /\ ~\E i \in DOMAIN merged :
                /\ merged[i].country = e.country
                /\ ym_to_key(merged[i].year, merged[i].month)
                      = e.k_cut + e.horizon
    /\ \E c \in Countries, i \in DOMAIN cuts, hh \in Band(cfg) :
          /\ EligibleDir(c, parse_ym(cuts[i]), hh) >= cfg.min_train_rows
          /\ ~Has(store, c, parse_ym(cuts[i]) + hh)
          /\ \E j \in DOMAIN mid : mid[j].country = c

====
